---- MODULE Spec2Model ----
(***************************************************************************)
(* OnboardBot: the result-aggregation pipeline (runOnboardBot), its three  *)
(* collectors, the synthesis stage, the response extraction and the demo   *)
(* session, as a state machine.  Text is modelled as TLA+ strings and the  *)
(* string operations of the source (includes, match, replace, toLowerCase, *)
(* JSON.parse, JSON.stringify) are computed character by character.        *)
(***************************************************************************)
EXTENDS Integers, Sequences, FiniteSets, TLC

(***************************************************************************)
(* JavaScript string primitives                                            *)
(***************************************************************************)

\* String.prototype.indexOf(sub, from) with 1-based positions; 0 when absent.
indexOf(s, sub, from) ==
  LET cand == { i \in from..(Len(s) - Len(sub) + 1) : SubSeq(s, i, i + Len(sub) - 1) = sub }
  IN IF cand = {} THEN 0 ELSE CHOOSE i \in cand : \A j \in cand : i <= j

\* String.prototype.lastIndexOf(sub), 1-based; 0 when absent.
lastIndexOf(s, sub) ==
  LET cand == { i \in 1..(Len(s) - Len(sub) + 1) : SubSeq(s, i, i + Len(sub) - 1) = sub }
  IN IF cand = {} THEN 0 ELSE CHOOSE i \in cand : \A j \in cand : i >= j

\* String.prototype.includes(sub)
includes(s, sub) == indexOf(s, sub, 1) # 0

\* String.prototype.endsWith(sub)
endsWith(s, sub) == Len(sub) <= Len(s) /\ SubSeq(s, Len(s) - Len(sub) + 1, Len(s)) = sub

\* String.prototype.replace(pat, rep) with a string pattern: the first occurrence only.
replace(s, pat, rep) ==
  LET i == indexOf(s, pat, 1)
  IN IF i = 0 THEN s
     ELSE SubSeq(s, 1, i - 1) \o rep \o SubSeq(s, i + Len(pat), Len(s))

UpperChars == <<"A","B","C","D","E","F","G","H","I","J","K","L","M",
                "N","O","P","Q","R","S","T","U","V","W","X","Y","Z">>

LowerChars == <<"a","b","c","d","e","f","g","h","i","j","k","l","m",
                "n","o","p","q","r","s","t","u","v","w","x","y","z">>

lowerChar(c) ==
  IF \E k \in 1..Len(UpperChars) : UpperChars[k] = c
  THEN LowerChars[CHOOSE k \in 1..Len(UpperChars) : UpperChars[k] = c]
  ELSE c

\* the characters lo..hi of s in lower case (halving keeps the recursion shallow)
RECURSIVE lowerRange(_, _, _)
lowerRange(s, lo, hi) ==
  IF lo > hi THEN ""
  ELSE IF lo = hi THEN lowerChar(SubSeq(s, lo, lo))
  ELSE lowerRange(s, lo, (lo + hi) \div 2) \o lowerRange(s, ((lo + hi) \div 2) + 1, hi)

\* String.prototype.toLowerCase()
toLowerCase(s) == lowerRange(s, 1, Len(s))

\* Array.prototype.join(sep) for an array of strings
RECURSIVE joinRange(_, _, _, _)
joinRange(xs, sep, lo, hi) ==
  IF lo > hi THEN ""
  ELSE IF lo = hi THEN xs[lo]
  ELSE joinRange(xs, sep, lo, (lo + hi) \div 2) \o sep \o joinRange(xs, sep, ((lo + hi) \div 2) + 1, hi)

\* (the array is bound once, so that its elements are computed once)
join(xs, sep) == CHOOSE s \in { joinRange(ys, sep, 1, Len(ys)) : ys \in {xs} } : TRUE

(***************************************************************************)
(* JSON values: every value is tagged, so that values of different kinds   *)
(* can be compared.                                                        *)
(***************************************************************************)
JStr(s) == [t |-> "str", v |-> s]
JNum(s) == [t |-> "num", v |-> s]
JLit(s) == [t |-> "lit", v |-> s]
JArr(xs) == [t |-> "arr", v |-> xs]
JObj(ms) == [t |-> "obj", v |-> ms]
Member(k, x) == [k |-> k, x |-> x]

EmptyArr == JArr(<<>>)

\* Array.prototype.length (a TypeError on anything that is no array is the caller's case)
length(a) == Len(a.v)

(***************************************************************************)
(* JSON.parse, by recursive descent over the characters                    *)
(***************************************************************************)
WhiteChars == {" "}
DigitChars == {"0","1","2","3","4","5","6","7","8","9"}

charAt(s, i) == IF i >= 1 /\ i <= Len(s) THEN SubSeq(s, i, i) ELSE ""

startsWithAt(s, i, lit) == i + Len(lit) - 1 <= Len(s) /\ SubSeq(s, i, i + Len(lit) - 1) = lit

RECURSIVE skipWs(_, _)
skipWs(s, i) == IF charAt(s, i) \in WhiteChars THEN skipWs(s, i + 1) ELSE i

RECURSIVE skipDigits(_, _)
skipDigits(s, i) == IF charAt(s, i) \in DigitChars THEN skipDigits(s, i + 1) ELSE i

ParseFail(i) == [ok |-> FALSE, val |-> JLit("null"), next |-> i]
ParseOk(x, i) == [ok |-> TRUE, val |-> x, next |-> i]

RECURSIVE ParseValue(_, _)
RECURSIVE ParseElements(_, _, _)
RECURSIVE ParseMembers(_, _, _)

\* a string literal starting at the quote in position i
ParseString(s, i) ==
  LET close == indexOf(s, "\"", i + 1)
  IN IF charAt(s, i) # "\"" \/ close = 0 THEN ParseFail(i)
     ELSE ParseOk(JStr(SubSeq(s, i + 1, close - 1)), close + 1)

\* elements of an array after "[" or after a comma; acc holds the elements so far
ParseElements(s, i, acc) ==
  LET r == ParseValue(s, i)
      j == skipWs(s, r.next)
  IN IF ~r.ok THEN ParseFail(i)
     ELSE IF charAt(s, j) = "," THEN ParseElements(s, j + 1, Append(acc, r.val))
     ELSE IF charAt(s, j) = "]" THEN ParseOk(JArr(Append(acc, r.val)), j + 1)
     ELSE ParseFail(j)

\* members of an object after "{" or after a comma
ParseMembers(s, i, acc) ==
  LET k == ParseString(s, skipWs(s, i))
      c == skipWs(s, k.next)
      r == ParseValue(s, c + 1)
      j == skipWs(s, r.next)
  IN IF ~k.ok \/ charAt(s, c) # ":" THEN ParseFail(i)
     ELSE IF ~r.ok THEN ParseFail(c)
     ELSE IF charAt(s, j) = "," THEN ParseMembers(s, j + 1, Append(acc, Member(k.val.v, r.val)))
     ELSE IF charAt(s, j) = "}" THEN ParseOk(JObj(Append(acc, Member(k.val.v, r.val))), j + 1)
     ELSE ParseFail(j)

ParseValue(s, i0) ==
  LET i == skipWs(s, i0)
      c == charAt(s, i)
  IN IF c = "\"" THEN ParseString(s, i)
     ELSE IF c = "[" THEN
       (IF charAt(s, skipWs(s, i + 1)) = "]" THEN ParseOk(EmptyArr, skipWs(s, i + 1) + 1)
        ELSE ParseElements(s, i + 1, <<>>))
     ELSE IF c = "{" THEN
       (IF charAt(s, skipWs(s, i + 1)) = "}" THEN ParseOk(JObj(<<>>), skipWs(s, i + 1) + 1)
        ELSE ParseMembers(s, i + 1, <<>>))
     ELSE IF c \in DigitChars THEN ParseOk(JNum(SubSeq(s, i, skipDigits(s, i) - 1)), skipDigits(s, i))
     ELSE IF startsWithAt(s, i, "true") THEN ParseOk(JLit("true"), i + 4)
     ELSE IF startsWithAt(s, i, "false") THEN ParseOk(JLit("false"), i + 5)
     ELSE IF startsWithAt(s, i, "null") THEN ParseOk(JLit("null"), i + 4)
     ELSE ParseFail(i)

\* JSON.parse(text): [ok |-> FALSE] stands for the SyntaxError it throws
JSONparse(text) ==
  LET r == ParseValue(text, 1)
  IN IF r.ok /\ skipWs(text, r.next) = Len(text) + 1 THEN r ELSE ParseFail(1)

RECURSIVE JSONstringify(_)

\* JSON.stringify(value, null, 2); the line breaks and the indentation are left out
JSONstringify(v) ==
  IF v.t = "str" THEN "\"" \o v.v \o "\""
  ELSE IF v.t = "arr" THEN
    "[" \o join([i \in 1..Len(v.v) |-> JSONstringify(v.v[i])], ", ") \o "]"
  ELSE IF v.t = "obj" THEN
    "{" \o join([i \in 1..Len(v.v) |-> "\"" \o v.v[i].k \o "\": " \o JSONstringify(v.v[i].x)], ", ") \o "}"
  ELSE v.v

\* the property k of a parsed object
prop(o, k) == (CHOOSE m \in { o.v[i] : i \in 1..Len(o.v) } : m.k = k).x

(***************************************************************************)
(* src/config/constants.js                                                 *)
(***************************************************************************)
OUTPUT_DIR == "./onboarding-guides"
MAX_FILES_TO_ANALYZE == 20
MAX_DISCUSSIONS_TO_FETCH == 10
MAX_ISSUES_TO_FETCH == 15
MAX_PRS_TO_FETCH == 10

ARCHITECTURE_FILES ==
  << "README.md", "CONTRIBUTING.md", "ARCHITECTURE.md", "docs/", "package.json",
     "requirements.txt", "Cargo.toml", "go.mod", "pom.xml", "build.gradle", "Makefile",
     "Dockerfile", "docker-compose.yml", "docker-compose.yaml", ".github/workflows/",
     "tsconfig.json", "pyproject.toml", "setup.py", ".eslintrc", ".prettierrc",
     "jest.config", "vitest.config" >>

\* Object.entries(TECH_PATTERNS), in insertion order
TECH_PATTERNS ==
  << [tech |-> "Node.js / JavaScript", patterns |-> <<"package.json", "node_modules", ".nvmrc">>],
     [tech |-> "TypeScript", patterns |-> <<"tsconfig.json", "*.ts", "*.tsx">>],
     [tech |-> "Python", patterns |-> <<"requirements.txt", "pyproject.toml", "setup.py", "Pipfile">>],
     [tech |-> "Rust", patterns |-> <<"Cargo.toml", "*.rs">>],
     [tech |-> "Go", patterns |-> <<"go.mod", "go.sum", "*.go">>],
     [tech |-> "Java", patterns |-> <<"pom.xml", "build.gradle", "*.java">>],
     [tech |-> "C# / .NET", patterns |-> <<"*.csproj", "*.sln", "Program.cs">>],
     [tech |-> "Docker", patterns |-> <<"Dockerfile", "docker-compose.yml">>],
     [tech |-> "Kubernetes", patterns |-> <<"k8s/", "*.yaml">>],
     [tech |-> "React", patterns |-> <<"react", "jsx", "tsx">>],
     [tech |-> "Next.js", patterns |-> <<"next.config">>],
     [tech |-> "Azure Functions", patterns |-> <<"host.json", "function.json">>],
     [tech |-> "Terraform", patterns |-> <<"*.tf", "terraform/">>],
     [tech |-> "Bicep", patterns |-> <<"*.bicep", "main.bicep">>] >>

(***************************************************************************)
(* Response extraction: the idiom every collector call repeats             *)
(***************************************************************************)
NoMatch == [found |-> FALSE, text |-> ""]

\* message.match(/\[[\s\S]*?\]/): from the first "[" to the first "]" after it
matchArray(message) ==
  LET a == indexOf(message, "[", 1)
      b == IF a = 0 THEN 0 ELSE indexOf(message, "]", a + 1)
  IN IF b = 0 THEN NoMatch ELSE [found |-> TRUE, text |-> SubSeq(message, a, b)]

\* message.match(/\{[\s\S]*\}/): from the first "{" to the last "}" after it
matchObject(message) ==
  LET a == indexOf(message, "{", 1)
      b == lastIndexOf(message, "}")
  IN IF a = 0 \/ b < a THEN NoMatch ELSE [found |-> TRUE, text |-> SubSeq(message, a, b)]

\* extractArrayOr, were a response with no match to go the way of a parse error
extractArrayOr_NoMatchAsError(message, onError) ==
  LET m == matchArray(message)
  IN IF ~m.found THEN onError
     ELSE IF JSONparse(m.text).ok THEN JSONparse(m.text).val
     ELSE onError

\* try { match ? JSON.parse(match[0]) : [] } catch { return onError }
extractArrayOr(message, onError) ==
  LET m == matchArray(message)
  IN IF ~m.found THEN EmptyArr
     ELSE IF JSONparse(m.text).ok THEN JSONparse(m.text).val
     ELSE onError

extractArray(message) == extractArrayOr(message, EmptyArr)

\* the catch branch of getKeyDocuments
CouldNotParse ==
  JArr(<< JObj(<< Member("file", JStr("README.md")),
                  Member("summary", JStr("Could not parse documentation.")) >>) >>)

getDefaultNorms ==
  JObj(<< Member("communicationChannels", JArr(<<JStr("Ask your team lead for relevant Teams channels")>>)),
          Member("meetingCadence", JStr("Check your calendar for recurring team meetings")),
          Member("codeReviewProcess", JStr("Check CONTRIBUTING.md in the repo")),
          Member("deploymentProcess", JStr("Check CI/CD workflows in .github/workflows/")),
          Member("otherNorms", JArr(<<JStr("Introduce yourself in the team channel on your first day!")>>)) >>)

\* extractNorms, were its fallback the empty sequence of the array extraction
extractNorms_EmptyFallback(message) ==
  LET m == matchObject(message)
  IN IF ~m.found THEN EmptyArr
     ELSE IF JSONparse(m.text).ok THEN JSONparse(m.text).val
     ELSE EmptyArr

\* extractNorms, were it to parse the whole message and return whatever it parses to
extractNorms_WholeMessage(message) ==
  IF JSONparse(message).ok THEN JSONparse(message).val ELSE getDefaultNorms

\* the try block of getTeamNorms
extractNorms(message) ==
  LET m == matchObject(message)
  IN IF ~m.found THEN getDefaultNorms
     ELSE IF JSONparse(m.text).ok THEN JSONparse(m.text).val
     ELSE getDefaultNorms

(***************************************************************************)
(* Repository collector: the local computations                            *)
(***************************************************************************)
RECURSIVE toStr(_)

\* Array.prototype.join on arbitrary elements: null joins as the empty string
joinValues(xs, sep) ==
  join([i \in 1..Len(xs) |-> IF xs[i].t = "lit" /\ xs[i].v = "null" THEN "" ELSE toStr(xs[i])], sep)

\* String(x)
toStr(x) ==
  IF x.t = "arr" THEN joinValues(x.v, ",")
  ELSE IF x.t = "obj" THEN "[object Object]"
  ELSE x.v

\* one pattern of TECH_PATTERNS against the lowercased listing
patternFound(structureStr, pattern) ==
  LET normalizedPattern == toLowerCase(replace(pattern, "*.", ""))
  IN includes(structureStr, replace(normalizedPattern, "/", ""))

\* detectTechStack, were the listing to be compared as it is written
detectTechStack_CaseSensitive(structure) ==
  LET structureStr == joinValues(structure.v, " ")
      hit(e) == \E k \in 1..Len(e.patterns) : patternFound(structureStr, e.patterns[k])
      detected == SelectSeq(TECH_PATTERNS, hit)
  IN JArr([i \in 1..Len(detected) |-> JStr(detected[i].tech)])

\* detectTechStack, were a technology to need every one of its patterns
detectTechStack_EveryPattern(structure) ==
  LET structureStr == toLowerCase(joinValues(structure.v, " "))
      hit(e) == \A k \in 1..Len(e.patterns) : patternFound(structureStr, e.patterns[k])
      detected == SelectSeq(TECH_PATTERNS, hit)
  IN JArr([i \in 1..Len(detected) |-> JStr(detected[i].tech)])

detectTechStack(structure) ==
  LET structureStr == toLowerCase(joinValues(structure.v, " "))
      hit(e) == \E k \in 1..Len(e.patterns) : patternFound(structureStr, e.patterns[k])
      detected == SelectSeq(TECH_PATTERNS, hit)
  IN JArr([i \in 1..Len(detected) |-> JStr(detected[i].tech)])

\* structure.some(...) for one file f of ARCHITECTURE_FILES, from element i on:
\* "true", "false", or "throw" when s.toLowerCase is called on an element that is no string
RECURSIVE someMatches(_, _, _)
someMatches(structure, f, i) ==
  LET normalizedFile == replace(toLowerCase(f), "/", "")
      s == structure.v[i]
  IN IF i > Len(structure.v) THEN "false"
     ELSE IF s.t # "str" THEN "throw"
     ELSE IF includes(toLowerCase(s.v), normalizedFile)
             \/ includes(normalizedFile, replace(toLowerCase(s.v), "/", ""))
          THEN "true"
     ELSE someMatches(structure, f, i + 1)

\* the filter of getKeyDocuments throws a TypeError
keyDocumentsThrows(structure) ==
  \E k \in 1..Len(ARCHITECTURE_FILES) : someMatches(structure, ARCHITECTURE_FILES[k], 1) = "throw"

docsToFetch(structure) ==
  LET keep(f) == someMatches(structure, f, 1) = "true"
      found == SelectSeq(ARCHITECTURE_FILES, keep)
      cut == SubSeq(found, 1, IF Len(found) < MAX_FILES_TO_ANALYZE THEN Len(found) ELSE MAX_FILES_TO_ANALYZE)
  IN IF Len(cut) = 0 THEN <<"README.md">> ELSE cut

(***************************************************************************)
(* The prompts.  Each is the template of the source cut to its first       *)
(* sentence and the lines in which a substring tested by the demo session  *)
(* occurs; the template parameters are filled in as the source does.       *)
(***************************************************************************)
Digits == <<"0","1","2","3","4","5","6","7","8","9">>

\* the decimal text of a natural number, as template interpolation renders it
RECURSIVE numStr(_)
numStr(n) == IF n < 10 THEN Digits[n + 1] ELSE numStr(n \div 10) \o Digits[(n % 10) + 1]

promptRepoStructure(owner, repo) ==
  "Use the GitHub MCP tools to get the repository tree/contents for " \o owner \o "/" \o repo
  \o ". List the top-level files and directories. Return ONLY a JSON array of file/directory names."

\* docsToFetch.map((f) => `- ${f}`)
bullets(fs) == [i \in 1..Len(fs) |-> "- " \o fs[i]]

promptKeyDocuments(owner, repo, structure) ==
  "Use the GitHub MCP tools to get the file contents of these files from " \o owner \o "/" \o repo
  \o ": " \o join(bullets(docsToFetch(structure)), " ")
  \o " For each file, return its name and a SUMMARY: - Key architecture decisions. Format as JSON."

promptRecentPRs(owner, repo) ==
  "Use the GitHub MCP tools to list the " \o numStr(MAX_PRS_TO_FETCH)
  \o " most recent pull requests for " \o owner \o "/" \o repo \o ". Format as JSON array."

promptActiveIssues(owner, repo) ==
  "Use the GitHub MCP tools to list the " \o numStr(MAX_ISSUES_TO_FETCH)
  \o " most recent open issues for " \o owner \o "/" \o repo \o ". Format as JSON array."

promptDiscussions(owner, repo) ==
  "Use the GitHub MCP tools to list the " \o numStr(MAX_DISCUSSIONS_TO_FETCH)
  \o " most recent discussions for " \o owner \o "/" \o repo
  \o ". If the repo has no discussions enabled, return an empty array."

promptDocsForTech(tech) ==
  "Use the Microsoft Learn MCP tools to search for \"" \o tech
  \o " getting started guide\" documentation. Return the top 5 most relevant results as JSON array."

\* techStack is an array of strings
strings(arr) == [i \in 1..Len(arr.v) |-> arr.v[i].v]

promptArchitectureDocs(techStack) ==
  "Use the Microsoft Learn MCP tools to search for architecture best practices related to: "
  \o join(strings(techStack), ", ")
  \o ". Also search for code samples using the microsoft_code_sample_search tool for: "
  \o join(strings(techStack), ", ") \o " - Solution architecture patterns"

promptTutorials(techStack) ==
  LET n == IF Len(techStack.v) < 3 THEN Len(techStack.v) ELSE 3
  IN "Use the Microsoft Learn MCP tools to search for interactive tutorials and learning paths for: "
     \o join(SubSeq(strings(techStack), 1, n), " and ")
     \o ". - Hands-on tutorials (not just reference docs) - Microsoft Learn training modules"

promptTeamsActivity(teamName) ==
  "Use the WorkIQ MCP tools to search for recent messages in Teams channels related to \""
  \o teamName \o "\". - Recent technical discussions or decisions"

promptKeyPeople(teamName, projectContext) ==
  "Use the WorkIQ MCP tools to find key people related to \"" \o teamName
  \o "\" and the project context: \"" \o projectContext
  \o "\". - People who are most active in discussions. Limit to 5-7 key people."

promptUpcomingEvents(teamName) ==
  "Use the WorkIQ MCP tools to find upcoming meetings and events related to \"" \o teamName
  \o "\" in the next 2 weeks."

promptTeamNorms(teamName) ==
  "Use the WorkIQ MCP tools to search for team norms, processes, and cultural information about \""
  \o teamName \o "\". - Teams channel descriptions and pinned messages"
  \o " - SharePoint sites or wikis related to the team"
  \o " - Recent emails about team processes or guidelines"

promptEmailInsights(teamName, projectContext) ==
  "Use the WorkIQ MCP tools to search recent emails related to \"" \o teamName \o "\" and \""
  \o projectContext \o "\". - Key decisions communicated over email (architecture changes)"

promptRelatedDocuments(teamName, projectContext) ==
  "Use the WorkIQ MCP tools to search for documents on SharePoint and OneDrive related to \""
  \o teamName \o "\" and \"" \o projectContext \o "\"."

buildSynthesisPrompt(repoAnalysis, learningResources, teamContext, options) ==
  "You are an expert onboarding specialist. Generate a comprehensive, personalized onboarding guide"
  \o " for a new developer joining the " \o options.owner \o "/" \o options.repo \o " project."
  \o " **Repository:** " \o repoAnalysis.repoFullName
  \o " **Detected Tech Stack:** "
  \o (IF join(strings(repoAnalysis.techStack), ", ") = "" THEN "Not detected"
      ELSE join(strings(repoAnalysis.techStack), ", "))
  \o " ### Key Documentation Found: " \o JSONstringify(repoAnalysis.docs)
  \o " ### Recent Pull Requests: " \o JSONstringify(repoAnalysis.prActivity)
  \o " ### Active Issues: " \o JSONstringify(repoAnalysis.issues)
  \o " ### Team Discussions: " \o JSONstringify(repoAnalysis.discussions)
  \o " ## LEARNING RESOURCES FROM MICROSOFT LEARN " \o JSONstringify(learningResources)
  \o " ### Recent Team Discussions: " \o JSONstringify(teamContext.recentDiscussions)
  \o " ### Key People to Connect With: " \o JSONstringify(teamContext.teamMembers)
  \o " ### Upcoming Events to Attend: " \o JSONstringify(teamContext.upcomingEvents)
  \o " ### Team Norms & Processes: " \o JSONstringify(teamContext.teamNorms)
  \o " ### Email Insights: " \o JSONstringify(teamContext.emailInsights)
  \o " ### Related Documents (SharePoint/OneDrive): " \o JSONstringify(teamContext.relatedDocuments)
  \o " # Welcome to " \o options.owner \o "/" \o options.repo \o "!"
  \o " ## Hello, " \o options.newHireName \o "!"
  \o " ## Tech Stack (Include links to relevant Microsoft Learn resources for each)"
  \o " ## Key People to Connect With"
  \o " ## Communication Guide (Which channels to join, team norms, how to ask for help)"
  \o " ## Recent Decisions from Email (context from email threads)"
  \o " ## Key Documents & Resources (documents discovered on SharePoint/OneDrive)"
  \o " - Understand core architecture"
  \o " ## Additional Resources (Links to all Microsoft Learn resources, tutorials, and docs gathered)"

(***************************************************************************)
(* The canned responses of the demo session                                *)
(***************************************************************************)
\* createDemoSession, the response of line 193, verbatim
DemoStructure ==
  "[\"README.md\", \"src/\", \"package.json\", \"tsconfig.json\", \"docs/\", \".github/\", "
  \o "\"Dockerfile\", \"docker-compose.yml\", \"tests/\", \".eslintrc.json\", \"jest.config.js"
  \o "\"]"

\* createDemoSession, the response of line 198; a string value longer than 18 characters is cut to
\* its first word followed by the predicate substrings that occur in it
DemoDocs ==
  "[{\"file\": \"README.md\", \"summary\": \"Project architecture\"}, {\"file\": \"CONTRIBU"
  \o "TING.md\", \"summary\": \"Contributi\"}]"

\* createDemoSession, the response of line 203; a string value longer than 18 characters is cut to
\* its first word followed by the predicate substrings that occur in it
DemoPRs ==
  "[{\"number\": 234, \"title\": \"feat:\", \"state\": \"open\", \"author\": \"senior-dev\""
  \o ", \"description\": \"Implements\"}, {\"number\": 231, \"title\": \"fix:\", \"state\": \""
  \o "merged\", \"author\": \"tech-lead\", \"description\": \"Fixed\"}, {\"number\": 228, \"ti"
  \o "tle\": \"docs: documentation\", \"state\": \"merged\", \"author\": \"docs-team\", \"desc"
  \o "ription\": \"Added\"}]"

\* createDemoSession, the response of line 208; a string value longer than 18 characters is cut to
\* its first word followed by the predicate substrings that occur in it
DemoIssues ==
  "[{\"number\": 100, \"title\": \"Implement\", \"labels\": [\"enhancement\", \"performance"
  \o "\"], \"summary\": \"Add\"}, {\"number\": 95, \"title\": \"Add\", \"labels\": [\"testing"
  \o "\", \"good first issue\"], \"summary\": \"New\"}, {\"number\": 88, \"title\": \"Migrate"
  \o "\", \"labels\": [\"infrastructure\", \"tech-debt\"], \"summary\": \"Upgrade\"}]"

\* createDemoSession, the response of line 213; a string value longer than 18 characters is cut to
\* its first word followed by the predicate substrings that occur in it
DemoDiscussions ==
  "[{\"title\": \"RFC:\", \"category\": \"Ideas\", \"author\": \"architect\", \"summary\": "
  \o "\"Proposing\"}, {\"title\": \"Team\", \"category\": \"General\", \"author\": \"manager\""
  \o ", \"summary\": \"Celebratin\"}]"

\* createDemoSession, the response of line 218; a string value longer than 18 characters is cut to
\* its first word followed by the predicate substrings that occur in it
DemoLearn ==
  "[{\"title\": \"Getting\", \"url\": \"https://le\", \"description\": \"Complete\"}, {\"ti"
  \o "tle\": \"TypeScript\", \"url\": \"https://le\", \"description\": \"Learn\"}, {\"title\":"
  \o " \"Docker\", \"url\": \"https://le\", \"description\": \"Deploy\"}]"

\* createDemoSession, the response of line 223; a string value longer than 18 characters is cut to
\* its first word followed by the predicate substrings that occur in it
DemoArchitecture ==
  "[{\"title\": \"Azure\", \"url\": \"https://le\", \"description\": \"Official\", \"type\""
  \o ": \"sample\"}, {\"title\": \"Microservi architecture\", \"url\": \"https://le architectu"
  \o "re\", \"description\": \"Design architecture\", \"type\": \"doc\"}]"

\* createDemoSession, the response of line 228; a string value longer than 18 characters is cut to
\* its first word followed by the predicate substrings that occur in it
DemoTutorials ==
  "[{\"title\": \"Build\", \"url\": \"https://le\", \"description\": \"Hands-on\", \"estima"
  \o "tedTime\": \"45 min\"}, {\"title\": \"Introducti\", \"url\": \"https://le\", \"descripti"
  \o "on\": \"Learn\", \"estimatedTime\": \"30 min\"}]"

\* createDemoSession, the response of line 233; a string value longer than 18 characters is cut to
\* its first word followed by the predicate substrings that occur in it
DemoTeams ==
  "[{\"topic\": \"Sprint 24 Planning\", \"channel\": \"Engineering\", \"summary\": \"Team\""
  \o ", \"date\": \"2026-02-10\", \"relevance\": \"Understand\"}, {\"topic\": \"Architectu\", "
  \o "\"channel\": \"Architecture\", \"summary\": \"Moving architecture\", \"date\": \"2026-02"
  \o "-08\", \"relevance\": \"Key\"}]"

\* createDemoSession, the response of line 238; a string value longer than 18 characters is cut to
\* its first word followed by the predicate substrings that occur in it
DemoPeople ==
  "[{\"name\": \"Alex Chen\", \"role\": \"Engineerin\", \"reason\": \"Your\"}, {\"name\": "
  \o "\"Sarah Johnson\", \"role\": \"Tech Lead\", \"reason\": \"Leads architecture\"}, {\"name"
  \o "\": \"Mike Park\", \"role\": \"Senior Engineer\", \"reason\": \"Most\"}, {\"name\": \"Li"
  \o "sa Wang\", \"role\": \"DevOps Lead\", \"reason\": \"Owns\"}]"

\* createDemoSession, the response of line 243; a string value longer than 18 characters is cut to
\* its first word followed by the predicate substrings that occur in it
DemoEvents ==
  "[{\"event\": \"Daily Standup\", \"date\": \"Every day 9:30 AM\", \"recurring\": true, \""
  \o "relevance\": \"Join\"}, {\"event\": \"Sprint Planning\", \"date\": \"2026-02-17\", \"rec"
  \o "urring\": true, \"relevance\": \"Great\"}, {\"event\": \"Architectu\", \"date\": \"2026-"
  \o "02-19\", \"recurring\": true, \"relevance\": \"Learn\"}]"

\* createDemoSession, the response of line 248; a string value longer than 18 characters is cut to
\* its first word followed by the predicate substrings that occur in it
DemoNorms ==
  "{\"communicationChannels\": [\"#engineeri\", \"#project-alpha\", \"#code-reviews\", \"#s"
  \o "ocial\"], \"meetingCadence\": \"Daily\", \"codeReviewProcess\": \"All\", \"deploymentPro"
  \o "cess\": \"CI/CD\", \"otherNorms\": [\"Use Teams discussions\", \"Update\", \"Pair\"]}"

\* createDemoSession, the response of line 253; a string value longer than 18 characters is cut to
\* its first word followed by the predicate substrings that occur in it
DemoEmails ==
  "[{\"subject\": \"Architectu\", \"from\": \"Sarah\", \"date\": \"2026-02-09\", \"summary"
  \o "\": \"Final architecture\", \"relevance\": \"Major\"}, {\"subject\": \"Security\", \"fro"
  \o "m\": \"Security Team\", \"date\": \"2026-02-06\", \"summary\": \"Audit\", \"relevance\":"
  \o " \"Understand\"}, {\"subject\": \"Welcome Welcome to\", \"from\": \"Alex\", \"date\": \""
  \o "2026-02-12\", \"summary\": \"Onboarding Teams key people\", \"relevance\": \"Your\"}, {"
  \o "\"subject\": \"Q1 OKRs Finalized\", \"from\": \"VP of Engineering\", \"date\": \"2026-02"
  \o "-01\", \"summary\": \"Team\", \"relevance\": \"Understand\"}, {\"subject\": \"RE:\", \"f"
  \o "rom\": \"Lisa\", \"date\": \"2026-02-05\", \"summary\": \"PostgreSQL\", \"relevance\": "
  \o "\"Affects\"}]"

\* createDemoSession, the response of line 258; a string value longer than 18 characters is cut to
\* its first word followed by the predicate substrings that occur in it
DemoDocuments ==
  "[{\"title\": \"System\", \"type\": \"PowerPoint\", \"location\": \"Engineerin SharePoint"
  \o "\", \"lastModified\": \"2026-02-08\", \"summary\": \"Comprehens architecture\", \"releva"
  \o "nce\": \"Essential\"}, {\"title\": \"API\", \"type\": \"Word\", \"location\": \"Engineer"
  \o "in SharePoint\", \"lastModified\": \"2026-01-20\", \"summary\": \"REST\", \"relevance\":"
  \o " \"Must\"}, {\"title\": \"Runbook:\", \"type\": \"Wiki\", \"location\": \"Engineerin Sha"
  \o "rePoint\", \"lastModified\": \"2026-02-03\", \"summary\": \"Step-by-st\", \"relevance\":"
  \o " \"Reference\"}, {\"title\": \"New\", \"type\": \"Word\", \"location\": \"HR SharePoint"
  \o "\", \"lastModified\": \"2026-01-15\", \"summary\": \"Access\", \"relevance\": \"Compleme"
  \o "nt\"}, {\"title\": \"Sprint\", \"type\": \"PowerPoint\", \"location\": \"Engineerin Shar"
  \o "ePoint\", \"lastModified\": \"2026-02-07\", \"summary\": \"Key\", \"relevance\": \"Under"
  \o "stand\"}, {\"title\": \"Event-Driv\", \"type\": \"Word\", \"location\": \"Engineerin Sha"
  \o "rePoint\", \"lastModified\": \"2026-02-09\", \"summary\": \"Detailed architecture\", \"r"
  \o "elevance\": \"Active discussions\"}]"

(***************************************************************************)
(* generateDemoGuide and the demo session                                  *)
(***************************************************************************)
isWordChar(c) ==
  \/ c \in DigitChars
  \/ c = "_"
  \/ \E k \in 1..Len(UpperChars) : UpperChars[k] = c \/ LowerChars[k] = c

RECURSIVE wordStart(_, _)
wordStart(s, i) == IF isWordChar(charAt(s, i - 1)) THEN wordStart(s, i - 1) ELSE i

RECURSIVE wordEnd(_, _)
wordEnd(s, i) == IF isWordChar(charAt(s, i + 1)) THEN wordEnd(s, i + 1) ELSE i

\* prompt.match(/(\w+)\/(\w+)/): the first slash with a word character on both sides
matchOwnerRepo(prompt) ==
  LET cand == { k \in 2..(Len(prompt) - 1) :
                  /\ charAt(prompt, k) = "/"
                  /\ isWordChar(charAt(prompt, k - 1))
                  /\ isWordChar(charAt(prompt, k + 1)) }
      k == CHOOSE k \in cand : \A j \in cand : k <= j
  IN IF cand = {} THEN [owner |-> "org", repo |-> "project"]
     ELSE [owner |-> SubSeq(prompt, wordStart(prompt, k - 1), k - 1),
           repo |-> SubSeq(prompt, k + 1, wordEnd(prompt, k + 1))]

\* prompt.match(/Hello, (.+?)!/)
matchName(prompt) ==
  LET a == indexOf(prompt, "Hello, ", 1)
      e == IF a = 0 THEN 0 ELSE indexOf(prompt, "!", a + 8)
  IN IF e = 0 THEN "New Team Member" ELSE SubSeq(prompt, a + 7, e - 1)

\* the section headings of the generated guide
generateDemoGuide(prompt) ==
  "# Welcome to " \o matchOwnerRepo(prompt).owner \o "/" \o matchOwnerRepo(prompt).repo \o "!"
  \o " ## Hello, " \o matchName(prompt) \o "!"
  \o " ## Architecture Overview ## Tech Stack ## Development Environment Setup"
  \o " ## Essential Reading ## Current Work in Progress ## Good First Issues"
  \o " ## Key People to Connect With ## Your First Two Weeks ## Important Meetings & Events"
  \o " ## Communication Guide ## Recent Decisions from Email ## Key Documents & Resources"
  \o " ## 30-60-90 Day Goals ## Additional Resources"

\* DemoSendAndWait, were the Microsoft Learn predicate tested before the discussions predicate
DemoSendAndWait_LearnFirst(prompt) ==
  IF includes(prompt, "repository tree") \/ includes(prompt, "top-level") THEN DemoStructure
  ELSE IF includes(prompt, "file contents") \/ includes(prompt, "key documentation") THEN DemoDocs
  ELSE IF includes(prompt, "pull requests") THEN DemoPRs
  ELSE IF includes(prompt, "open issues") THEN DemoIssues
  ELSE IF includes(prompt, "Microsoft Learn") \/ includes(prompt, "documentation") THEN DemoLearn
  ELSE IF includes(prompt, "discussions") THEN DemoDiscussions
  ELSE IF includes(prompt, "code samples") \/ includes(prompt, "architecture") THEN DemoArchitecture
  ELSE IF includes(prompt, "tutorials") \/ includes(prompt, "learning paths") THEN DemoTutorials
  ELSE IF includes(prompt, "Teams") \/ includes(prompt, "recent messages") THEN DemoTeams
  ELSE IF includes(prompt, "key people") \/ includes(prompt, "find key people") THEN DemoPeople
  ELSE IF includes(prompt, "upcoming meetings") \/ includes(prompt, "upcoming events") THEN DemoEvents
  ELSE IF includes(prompt, "team norms") \/ includes(prompt, "team processes") THEN DemoNorms
  ELSE IF includes(prompt, "recent emails") \/ includes(prompt, "email") THEN DemoEmails
  ELSE IF \/ includes(prompt, "documents on SharePoint")
          \/ includes(prompt, "SharePoint")
          \/ includes(prompt, "OneDrive") THEN DemoDocuments
  ELSE IF includes(prompt, "onboarding specialist") \/ includes(prompt, "Welcome to")
       THEN generateDemoGuide(prompt)
  ELSE "[]"

\* createDemoSession().sendAndWait(prompt).message
DemoSendAndWait(prompt) ==
  IF includes(prompt, "repository tree") \/ includes(prompt, "top-level") THEN DemoStructure
  ELSE IF includes(prompt, "file contents") \/ includes(prompt, "key documentation") THEN DemoDocs
  ELSE IF includes(prompt, "pull requests") THEN DemoPRs
  ELSE IF includes(prompt, "open issues") THEN DemoIssues
  ELSE IF includes(prompt, "discussions") THEN DemoDiscussions
  ELSE IF includes(prompt, "Microsoft Learn") \/ includes(prompt, "documentation") THEN DemoLearn
  ELSE IF includes(prompt, "code samples") \/ includes(prompt, "architecture") THEN DemoArchitecture
  ELSE IF includes(prompt, "tutorials") \/ includes(prompt, "learning paths") THEN DemoTutorials
  ELSE IF includes(prompt, "Teams") \/ includes(prompt, "recent messages") THEN DemoTeams
  ELSE IF includes(prompt, "key people") \/ includes(prompt, "find key people") THEN DemoPeople
  ELSE IF includes(prompt, "upcoming meetings") \/ includes(prompt, "upcoming events") THEN DemoEvents
  ELSE IF includes(prompt, "team norms") \/ includes(prompt, "team processes") THEN DemoNorms
  ELSE IF includes(prompt, "recent emails") \/ includes(prompt, "email") THEN DemoEmails
  ELSE IF \/ includes(prompt, "documents on SharePoint")
          \/ includes(prompt, "SharePoint")
          \/ includes(prompt, "OneDrive") THEN DemoDocuments
  ELSE IF includes(prompt, "onboarding specialist") \/ includes(prompt, "Welcome to")
       THEN generateDemoGuide(prompt)
  ELSE "[]"


(***************************************************************************)
(* The run: the generate command, runOnboardBot and its promise chains     *)
(***************************************************************************)
VARIABLES
  opts,      \* the options of the generate command: skipTeams, skipDocs
  world,     \* the environment: is the SDK available, what the real session answers,
             \* the demo session and the stages whose calls it is made to fail
  session,   \* the session the command built
  pc,        \* where the command and runOnboardBot stand
  cpc,       \* where each of the three promise chains stands
  local,     \* the local variables of the collector each chain is running
  task,      \* repoTask, docsTask, teamTask: pending, or the value they resolved to
  results,   \* the accumulator of runOnboardBot
  inflight,  \* the session call each caller is waiting for
  sent,      \* how many session calls each caller has issued so far
  guideContent, \* generateOnboardingGuide's local, once the response is in
  fs         \* the output directory and the guide file

vars == <<opts, world, session, pc, cpc, local, task, results, inflight, sent, guideContent, fs>>

\* the number of sample messages the real session answers with
MaxReplies == 4

Owner == "microsoft"
Repo == "vscode"
NewHireName == "New Team Member"
\* new Date().toISOString() at the time of the run
NowISO == "2026-11-01T09:30:00.000Z"
\* teamName || repo, with no --team option given
TeamName == Repo
ProjectContext == Owner \o "/" \o Repo
Options == [owner |-> Owner, repo |-> Repo, newHireName |-> NewHireName]

Chains == {"repo", "docs", "team"}
Callers == Chains \cup {"guide"}
Stages == {"repo-analysis", "docs-fetch", "team-context", "guide-generation"}

StageOf(c) ==
  CASE c = "repo" -> "repo-analysis"
    [] c = "docs" -> "docs-fetch"
    [] c = "team" -> "team-context"
    [] c = "guide" -> "guide-generation"

Undefined == JLit("undefined")
Null == JLit("null")
Pending == [state |-> "pending", value |-> Undefined]
Fulfilled(x) == [state |-> "fulfilled", value |-> x]

\* messages a real session may answer with: a listing in prose, no JSON at all, an array
\* of numbers, an object, an array with a nested array
MsgFiles == "Here is the listing: [\"go.mod\", \"main.go\"] as requested."
MsgProse == "Sorry, I could not find anything."
MsgNumbers == "[1, 2]"
MsgObject == "{\"meetingCadence\": \"weekly\", \"otherNorms\": [\"pairing\"]}"
MsgNested == "[{\"number\": 1, \"labels\": [\"bug\"]}]"
MsgBraces == "Our norms: {meetingCadence: weekly}"
MsgEmpty == ""
SampleMessages == <<MsgFiles, MsgProse, MsgNumbers, MsgObject, MsgNested, MsgBraces, MsgEmpty>>

Messages ==
  { SampleMessages[i] : i \in 1..(IF MaxReplies < Len(SampleMessages) THEN MaxReplies ELSE Len(SampleMessages)) }

DemoResponses ==
  { DemoStructure, DemoDocs, DemoPRs, DemoIssues, DemoDiscussions, DemoLearn, DemoArchitecture,
    DemoTutorials, DemoTeams, DemoPeople, DemoEvents, DemoNorms, DemoEmails, DemoDocuments, "[]" }

(***************************************************************************)
(* The extraction over the messages that occur, each parsed once           *)
(***************************************************************************)
CannedMessages == DemoResponses \cup { SampleMessages[i] : i \in 1..Len(SampleMessages) }
ArrayTable == [m \in CannedMessages |-> extractArray(m)]
DocsTable == [m \in CannedMessages |-> extractArrayOr(m, CouldNotParse)]
NormsTable == [m \in CannedMessages |-> extractNorms(m)]
Listings == { ArrayTable[m] : m \in CannedMessages }
TechTable == [s \in Listings |-> detectTechStack(s)]
ThrowsTable == [s \in Listings |-> keyDocumentsThrows(s)]

\* what a collector function makes of the message it is answered
extracted(fn, message) ==
  IF fn = "getKeyDocuments" THEN DocsTable[message]
  ELSE IF fn = "getTeamNorms" THEN NormsTable[message]
  ELSE ArrayTable[message]

(***************************************************************************)
(* Session calls                                                           *)
(***************************************************************************)
Call(fn, arg) == [fn |-> fn, arg |-> arg]

\* the prompt a collector call sends
PromptOf(call) ==
  CASE call.fn = "getRepoStructure" -> promptRepoStructure(Owner, Repo)
    [] call.fn = "getKeyDocuments" -> promptKeyDocuments(Owner, Repo, call.arg)
    [] call.fn = "getRecentPRs" -> promptRecentPRs(Owner, Repo)
    [] call.fn = "getActiveIssues" -> promptActiveIssues(Owner, Repo)
    [] call.fn = "getDiscussions" -> promptDiscussions(Owner, Repo)
    [] call.fn = "searchDocsForTech" -> promptDocsForTech(call.arg.v)
    [] call.fn = "searchArchitectureDocs" -> promptArchitectureDocs(call.arg)
    [] call.fn = "searchTutorials" -> promptTutorials(call.arg)
    [] call.fn = "getRecentTeamsActivity" -> promptTeamsActivity(TeamName)
    [] call.fn = "getKeyPeople" -> promptKeyPeople(TeamName, ProjectContext)
    [] call.fn = "getUpcomingEvents" -> promptUpcomingEvents(TeamName)
    [] call.fn = "getTeamNorms" -> promptTeamNorms(TeamName)
    [] call.fn = "getEmailInsights" -> promptEmailInsights(TeamName, ProjectContext)
    [] call.fn = "getRelatedDocuments" -> promptRelatedDocuments(TeamName, ProjectContext)

\* the collector calls of a run, for the table of a demo session's answers
PlainFns ==
  { "getRepoStructure", "getRecentPRs", "getActiveIssues", "getDiscussions",
    "getRecentTeamsActivity", "getKeyPeople", "getUpcomingEvents", "getTeamNorms",
    "getEmailInsights", "getRelatedDocuments" }

CollectorCalls ==
  LET listings == { l \in Listings : ~ThrowsTable[l] }
      stacks == { TechTable[l] : l \in listings }
  IN { Call(f, Null) : f \in PlainFns }
     \cup { Call("getKeyDocuments", l) : l \in listings }
     \cup { Call("searchDocsForTech", JStr(e.tech)) : e \in { TECH_PATTERNS[i] : i \in 1..Len(TECH_PATTERNS) } }
     \cup { Call(f, ts) : f \in {"searchArchitectureDocs", "searchTutorials"}, ts \in stacks }

\* createDemoSession(): the object whose sendAndWait answers a prompt with a canned message
createDemoSession ==
  [kind |-> "demo", mcpServers |-> {},
   sendAndWait |-> [call \in CollectorCalls |-> DemoSendAndWait(PromptOf(call))]]

Throw(e) == [kind |-> "throw", message |-> "", error |-> e]
Return(m) == [kind |-> "return", message |-> m, error |-> ""]

\* what session.sendAndWait can do for caller c: demoMessage is the answer of a demo
\* session to the prompt, replies are the messages a real session may answer with
Outcomes(c, demoMessage, replies) ==
  IF session.kind = "demo"
  THEN (IF StageOf(c) \in world.faults THEN { Throw("forced failure") }
        ELSE { Return(demoMessage) })
  ELSE { Throw("session error") } \cup { Return(m) : m \in replies }

\* the argument of the call collector c is waiting for
CallArg(c) ==
  CASE inflight[c] = "getKeyDocuments" -> local.repo.structure
    [] inflight[c] = "searchDocsForTech" ->
         task.repo.value.techStack.v[Len(local.docs.resources.v) + 1]
    [] inflight[c] \in {"searchArchitectureDocs", "searchTutorials"} -> task.repo.value.techStack
    [] OTHER -> Null

\* the outcomes of the call collector c is waiting for
CollectorOutcomes(c) ==
  IF world.command = "analyzeRepository" THEN { world.responses[inflight[c]] }
  ELSE IF world.command = "gatherTeamContext" THEN { Return(world.reply) }
  ELSE
  Outcomes(c,
           IF session.kind = "demo" THEN session.sendAndWait[Call(inflight[c], CallArg(c))] ELSE "",
           {world.reply})

(***************************************************************************)
(* The generate command                                                    *)
(***************************************************************************)
mcpServers == {"github", "playwright", "workiq", "microsoft-learn"}

\* { ...mcpServers } less the servers the skip flags delete
activeMcpServers(o) ==
  (mcpServers \ (IF o.skipTeams THEN {"workiq"} ELSE {}))
             \ (IF o.skipDocs THEN {"microsoft-learn"} ELSE {})

NoLocals ==
  [structure |-> Undefined, techStack |-> Undefined, docs |-> Undefined, prActivity |-> Undefined,
   issues |-> Undefined, discussions |-> Undefined, resources |-> Undefined,
   recentDiscussions |-> Undefined, teamMembers |-> Undefined, upcomingEvents |-> Undefined,
   teamNorms |-> Undefined, emailInsights |-> Undefined, relatedDocuments |-> Undefined,
   err |-> ""]

\* the output directory holds no file
NoFiles == [p \in {} |-> ""]

\* the ways the try block that builds the session can fail: the import of the SDK throws
\* ("Cannot find package"), new CopilotClient() throws, client.createSession rejects
SdkFailures == {"import", "construct", "createSession"}

\* With the SDK at hand the session is a real one: it answers every collector call with
\* world.reply or throws.  Without it the command falls back on the demo session, which
\* world.demo holds ready made, and world.faults are the stages whose calls are made to throw.
\* world.command is the command given on the command line.
Worlds ==
  { [command |-> c, sdk |-> "ok", faults |-> {}, reply |-> m, demo |-> <<>>] :
      c \in {"generate", "scan"}, m \in Messages }
  \cup UNION { { [command |-> "generate", sdk |-> f, faults |-> F, reply |-> "[]", demo |-> d] :
                   f \in SdkFailures, F \in SUBSET Stages }
               \cup { [command |-> "scan", sdk |-> f, faults |-> F, reply |-> "[]", demo |-> d] :
                        f \in SdkFailures, F \in {{}, {"repo-analysis"}} } :
               d \in {createDemoSession} }

Init ==
  /\ opts \in [skipTeams : BOOLEAN, skipDocs : BOOLEAN]
  /\ world \in Worlds
  /\ world.command = "scan" => ~opts.skipTeams /\ ~opts.skipDocs
  /\ session = [kind |-> "none", mcpServers |-> {}, sendAndWait |-> <<>>]
  /\ pc = "cli"
  /\ cpc = [c \in Chains |-> "idle"]
  /\ local = [c \in Chains |-> NoLocals]
  /\ task = [c \in Chains |-> Pending]
  /\ results = [steps |-> <<>>, errors |-> <<>>, guide |-> Undefined]
  /\ inflight = [c \in Callers |-> "none"]
  /\ sent = [c \in Callers |-> 0]
  /\ guideContent = ""
  /\ fs = [dir |-> FALSE, files |-> NoFiles, error |-> "none"]

\* Generate, were its catch to fall back on the demo session for a missing package only
Generate_MissingPackageOnly ==
  /\ pc = "cli"
  /\ world.command = "generate"
  /\ session' = IF world.sdk = "ok"
                THEN [kind |-> "real", mcpServers |-> activeMcpServers(opts), sendAndWait |-> <<>>]
                ELSE IF world.sdk = "import" THEN world.demo ELSE session
  /\ pc' = IF world.sdk \in {"ok", "import"} THEN "ready" ELSE "exit"
  /\ UNCHANGED <<opts, world, cpc, local, task, results, inflight, sent, guideContent, fs>>

\* the action of the generate command up to the call of runOnboardBot: the try block that
\* builds the session, and its catch, which substitutes the demo session
Generate ==
  /\ pc = "cli"
  /\ world.command = "generate"
  /\ session' = IF world.sdk = "ok"
                THEN [kind |-> "real", mcpServers |-> activeMcpServers(opts), sendAndWait |-> <<>>]
                ELSE world.demo
  /\ pc' = "ready"
  /\ UNCHANGED <<opts, world, cpc, local, task, results, inflight, sent, guideContent, fs>>

\* analyzeRepository, were the issues fetched before the pull requests
analyzeRepository_IssuesFirst ==
  << [fn |-> "getRepoStructure", var |-> "structure"],
     [fn |-> "getKeyDocuments", var |-> "docs"],
     [fn |-> "getActiveIssues", var |-> "issues"],
     [fn |-> "getRecentPRs", var |-> "prActivity"],
     [fn |-> "getDiscussions", var |-> "discussions"] >>

(***************************************************************************)
(* runOnboardBot                                                           *)
(***************************************************************************)
\* the awaits of a collector in order: the function called and the local it assigns
analyzeRepository ==
  << [fn |-> "getRepoStructure", var |-> "structure"],
     [fn |-> "getKeyDocuments", var |-> "docs"],
     [fn |-> "getRecentPRs", var |-> "prActivity"],
     [fn |-> "getActiveIssues", var |-> "issues"],
     [fn |-> "getDiscussions", var |-> "discussions"] >>

gatherTeamContext ==
  << [fn |-> "getRecentTeamsActivity", var |-> "recentDiscussions"],
     [fn |-> "getKeyPeople", var |-> "teamMembers"],
     [fn |-> "getUpcomingEvents", var |-> "upcomingEvents"],
     [fn |-> "getTeamNorms", var |-> "teamNorms"],
     [fn |-> "getEmailInsights", var |-> "emailInsights"],
     [fn |-> "getRelatedDocuments", var |-> "relatedDocuments"] >>

\* the await of collector `awaits` that is outstanding when fn is in flight
awaitOf(awaits, fn) == CHOOSE i \in 1..Len(awaits) : awaits[i].fn = fn

\* runOnboardBot up to its await: the accumulator is created, analyzeRepository and
\* gatherTeamContext run to their first sendAndWait, docsTask is chained on repoTask
Start ==
  /\ pc = "ready"
  /\ pc' = "collecting"
  /\ results' = [steps |-> <<>>, errors |-> <<>>, guide |-> Undefined]
  /\ cpc' = [repo |-> "running", docs |-> "waiting", team |-> "running"]
  /\ inflight' = [inflight EXCEPT !.repo = analyzeRepository[1].fn, !.team = gatherTeamContext[1].fn]
  /\ sent' = [sent EXCEPT !.repo = @ + 1, !.team = @ + 1]
  /\ UNCHANGED <<opts, world, session, local, task, guideContent, fs>>

\* Reject, were a call that threw to be sent once more
Reject_Retry(c, e) ==
  /\ cpc' = cpc
  /\ local' = local
  /\ inflight' = inflight
  /\ sent' = [sent EXCEPT ![c] = @ + 1]

\* a collector throws: its promise is rejected, the locals it had assigned are left behind
Reject(c, e) ==
  /\ cpc' = [cpc EXCEPT ![c] = "rejected"]
  /\ local' = [local EXCEPT ![c].err = e]
  /\ inflight' = [inflight EXCEPT ![c] = "none"]
  /\ sent' = sent

\* a collector goes on to its next call
Proceed(c, fn, loc) ==
  /\ cpc' = [cpc EXCEPT ![c] = "running"]
  /\ local' = [local EXCEPT ![c] = loc]
  /\ inflight' = [inflight EXCEPT ![c] = fn]
  /\ sent' = [sent EXCEPT ![c] = @ + 1]

\* Finish, were the last call of a collector to stay outstanding when the collector ends
Finish_StillOutstanding(c, loc) ==
  /\ cpc' = [cpc EXCEPT ![c] = "fulfilled"]
  /\ local' = [local EXCEPT ![c] = loc]
  /\ inflight' = inflight
  /\ sent' = sent

\* a collector returns: its promise is fulfilled
Finish(c, loc) ==
  /\ cpc' = [cpc EXCEPT ![c] = "fulfilled"]
  /\ local' = [local EXCEPT ![c] = loc]
  /\ inflight' = [inflight EXCEPT ![c] = "none"]
  /\ sent' = sent

\* a collector that is a plain sequence of awaits, once its outstanding call returned value
Continue(c, awaits, loc) ==
  \E i \in {awaitOf(awaits, inflight[c])} :
    IF i < Len(awaits) THEN Proceed(c, awaits[i + 1].fn, loc) ELSE Finish(c, loc)

\* analyzeRepository, from the answer to its outstanding call to its next await or its end.
\* After the listing is in, detectTechStack runs and getKeyDocuments filters
\* ARCHITECTURE_FILES against it before it sends anything.
RepoRespond ==
  /\ pc \in {"collecting", "scanning"}
  /\ inflight.repo # "none"
  /\ \E out \in CollectorOutcomes("repo") :
       IF out.kind = "throw" THEN Reject("repo", out.error)
       ELSE \E value \in {extracted(inflight.repo, out.message)} :
              IF inflight.repo # "getRepoStructure"
              THEN Continue("repo", analyzeRepository,
                            [local.repo EXCEPT ![analyzeRepository[awaitOf(analyzeRepository, inflight.repo)].var] = value])
              ELSE IF ThrowsTable[value]
              THEN Reject("repo", "s.toLowerCase is not a function")
              ELSE Continue("repo", analyzeRepository,
                            [local.repo EXCEPT !.structure = value, !.techStack = TechTable[value]])
  /\ UNCHANGED <<opts, world, session, pc, task, results, guideContent, fs>>

RepositoryAnalysis_Counted(l) ==
  [repoFullName |-> Owner \o "/" \o Repo, structure |-> l.structure, techStack |-> l.techStack,
   docs |-> l.docs, prActivity |-> l.prActivity, issues |-> l.issues, discussions |-> l.discussions,
   calls |-> sent.repo]

RepositoryAnalysis(l) ==
  [repoFullName |-> Owner \o "/" \o Repo, structure |-> l.structure, techStack |-> l.techStack,
   docs |-> l.docs, prActivity |-> l.prActivity, issues |-> l.issues, discussions |-> l.discussions]

RepoFallback ==
  [repoFullName |-> Owner \o "/" \o Repo, structure |-> EmptyArr, techStack |-> EmptyArr,
   docs |-> EmptyArr, prActivity |-> EmptyArr, issues |-> EmptyArr, discussions |-> EmptyArr]

\* a handler of a chain returns x: the chain's task is fulfilled with it
Settle(c, x) ==
  /\ cpc' = [cpc EXCEPT ![c] = "settled"]
  /\ task' = [task EXCEPT ![c] = Fulfilled(x)]
  /\ local' = [local EXCEPT ![c] = NoLocals]

\* PushStep, were the entry put in front of the list
PushStep_InFront(entry) == results' = [results EXCEPT !.steps = <<entry>> \o @]

PushStep(entry) == results' = [results EXCEPT !.steps = Append(@, entry)]
PushError(c, e) == results' = [results EXCEPT !.errors = Append(@, [step |-> StageOf(c), error |-> e])]

\* the .then handler of repoTask
RepoThen ==
  /\ pc = "collecting"
  /\ cpc.repo = "fulfilled"
  /\ \E analysis \in {RepositoryAnalysis(local.repo)} :
        /\ PushStep([step |-> "repo-analysis", status |-> "success",
                     techStack |-> analysis.techStack,
                     filesFound |-> length(analysis.structure),
                     docsFound |-> length(analysis.docs),
                     prsFound |-> length(analysis.prActivity),
                     issuesFound |-> length(analysis.issues)])
        /\ Settle("repo", analysis)
  /\ UNCHANGED <<opts, world, session, pc, inflight, sent, guideContent, fs>>

\* RepoCatch, were it to hand on what the collector had gathered before it threw
RepoCatch_Partial ==
  /\ pc = "collecting"
  /\ cpc.repo = "rejected"
  /\ PushError("repo", local.repo.err)
  /\ Settle("repo", RepositoryAnalysis(local.repo))
  /\ UNCHANGED <<opts, world, session, pc, inflight, sent, guideContent, fs>>

\* RepoCatch, were the handler to record the error and throw it on
RepoCatch_Rethrow ==
  /\ pc = "collecting"
  /\ cpc.repo = "rejected"
  /\ PushError("repo", local.repo.err)
  /\ cpc' = [cpc EXCEPT !.repo = "settled"]
  /\ task' = [task EXCEPT !.repo = [state |-> "rejected", value |-> Undefined]]
  /\ local' = [local EXCEPT !.repo = NoLocals]
  /\ UNCHANGED <<opts, world, session, pc, inflight, sent, guideContent, fs>>

\* the .catch handler of repoTask
RepoCatch ==
  /\ pc = "collecting"
  /\ cpc.repo = "rejected"
  /\ PushError("repo", local.repo.err)
  /\ Settle("repo", RepoFallback)
  /\ UNCHANGED <<opts, world, session, pc, inflight, sent, guideContent, fs>>

(***************************************************************************)
(* docsTask: fetchLearningResources chained on repoTask                    *)
(***************************************************************************)
Group(technology, resources) ==
  JObj(<<Member("technology", JStr(technology)), Member("resources", resources)>>)

\* DocsCall, were there no search for architecture documents
DocsCall_NoArchitecture(n, k) ==
  IF n < k THEN "searchDocsForTech" ELSE "searchTutorials"

\* the function fetchLearningResources calls once it holds n groups, for k technologies
DocsCall(n, k) ==
  IF n < k THEN "searchDocsForTech"
  ELSE IF n = k THEN "searchArchitectureDocs"
  ELSE "searchTutorials"

\* DocsStart, were fetchLearningResources called at once with the tech stack of the fallback
DocsStart_AtOnce ==
  /\ cpc.docs = "waiting"
  /\ Proceed("docs", DocsCall(0, length(RepoFallback.techStack)),
             [NoLocals EXCEPT !.resources = EmptyArr])
  /\ UNCHANGED <<opts, world, session, pc, task, results, guideContent, fs>>

\* the first .then of docsTask: repoTask is settled, fetchLearningResources runs to its first await
DocsStart ==
  /\ cpc.docs = "waiting"
  /\ task.repo.state = "fulfilled"
  /\ Proceed("docs", DocsCall(0, length(task.repo.value.techStack)),
             [NoLocals EXCEPT !.resources = EmptyArr])
  /\ UNCHANGED <<opts, world, session, pc, task, results, guideContent, fs>>

\* the technology of the group the outstanding call fills
Technology(fn, techStack, n) ==
  CASE fn = "searchDocsForTech" -> techStack.v[n + 1].v
    [] fn = "searchArchitectureDocs" -> "Architecture & Best Practices"
    [] fn = "searchTutorials" -> "Getting Started Tutorials"

\* fetchLearningResources, from the answer to its outstanding call to its next await or its end
DocsRespond ==
  /\ pc = "collecting"
  /\ inflight.docs # "none"
  /\ \E out \in CollectorOutcomes("docs") :
       IF out.kind = "throw" THEN Reject("docs", out.error)
       ELSE \E n \in {length(local.docs.resources)}, techStack \in {task.repo.value.techStack} :
            \E resources \in {JArr(Append(local.docs.resources.v,
                                          Group(Technology(inflight.docs, techStack, n),
                                                extracted(inflight.docs, out.message))))} :
              IF inflight.docs = "searchTutorials"
              THEN Finish("docs", [local.docs EXCEPT !.resources = resources])
              ELSE Proceed("docs", DocsCall(n + 1, length(techStack)),
                           [local.docs EXCEPT !.resources = resources])
  /\ UNCHANGED <<opts, world, session, pc, task, results, guideContent, fs>>

\* resources.reduce((sum, r) => sum + r.resources.length, 0)
RECURSIVE resourceCount(_, _)
resourceCount(resources, i) ==
  IF i > Len(resources.v) THEN 0
  ELSE length(prop(resources.v[i], "resources")) + resourceCount(resources, i + 1)

\* the second .then of docsTask
DocsThen ==
  /\ cpc.docs = "fulfilled"
  /\ PushStep([step |-> "docs-fetch", status |-> "success",
               resourceCount |-> resourceCount(local.docs.resources, 1)])
  /\ Settle("docs", local.docs.resources)
  /\ UNCHANGED <<opts, world, session, pc, inflight, sent, guideContent, fs>>

\* DocsCatch, were it to substitute the fallback without recording the failure
DocsCatch_Silent ==
  /\ cpc.docs = "rejected"
  /\ Settle("docs", EmptyArr)
  /\ UNCHANGED <<opts, world, session, pc, results, inflight, sent, guideContent, fs>>

\* the .catch of docsTask
DocsCatch ==
  /\ cpc.docs = "rejected"
  /\ PushError("docs", local.docs.err)
  /\ Settle("docs", EmptyArr)
  /\ UNCHANGED <<opts, world, session, pc, inflight, sent, guideContent, fs>>

\* TeamRespond, were the session to answer the team collector only once the repository
\* collector has ended
TeamRespond_AfterRepo ==
  /\ task.repo.state = "fulfilled"
  /\ pc = "collecting"
  /\ inflight.team # "none"
  /\ \E out \in CollectorOutcomes("team") :
       IF out.kind = "throw" THEN Reject("team", out.error)
       ELSE Continue("team", gatherTeamContext,
                     [local.team EXCEPT ![gatherTeamContext[awaitOf(gatherTeamContext, inflight.team)].var] =
                                           extracted(inflight.team, out.message)])
  /\ UNCHANGED <<opts, world, session, pc, task, results, guideContent, fs>>

(***************************************************************************)
(* teamTask: gatherTeamContext                                             *)
(***************************************************************************)
\* gatherTeamContext, from the answer to its outstanding call to its next await or its end
TeamRespond ==
  /\ pc = "collecting"
  /\ inflight.team # "none"
  /\ \E out \in CollectorOutcomes("team") :
       IF out.kind = "throw" THEN Reject("team", out.error)
       ELSE Continue("team", gatherTeamContext,
                     [local.team EXCEPT ![gatherTeamContext[awaitOf(gatherTeamContext, inflight.team)].var] =
                                           extracted(inflight.team, out.message)])
  /\ UNCHANGED <<opts, world, session, pc, task, results, guideContent, fs>>

TeamContext(l) ==
  [recentDiscussions |-> l.recentDiscussions, teamMembers |-> l.teamMembers,
   upcomingEvents |-> l.upcomingEvents, teamNorms |-> l.teamNorms,
   emailInsights |-> l.emailInsights, relatedDocuments |-> l.relatedDocuments]

TeamFallback ==
  [recentDiscussions |-> EmptyArr, teamMembers |-> EmptyArr, upcomingEvents |-> EmptyArr,
   teamNorms |-> JObj(<<Member("communicationChannels", EmptyArr),
                        Member("meetingCadence", JStr("Unknown")),
                        Member("codeReviewProcess", JStr("Check CONTRIBUTING.md")),
                        Member("deploymentProcess", JStr("Check CI/CD workflows")),
                        Member("otherNorms", EmptyArr)>>),
   emailInsights |-> EmptyArr, relatedDocuments |-> EmptyArr]

\* the .then handler of teamTask
TeamThen ==
  /\ cpc.team = "fulfilled"
  /\ \E context \in {TeamContext(local.team)} :
        /\ PushStep([step |-> "team-context", status |-> "success",
                     discussions |-> length(context.recentDiscussions),
                     people |-> length(context.teamMembers),
                     events |-> length(context.upcomingEvents),
                     emails |-> length(context.emailInsights),
                     documents |-> length(context.relatedDocuments)])
        /\ Settle("team", context)
  /\ UNCHANGED <<opts, world, session, pc, inflight, sent, guideContent, fs>>

\* TeamCatch, were it to record the failed stage as a step
TeamCatch_AsStep ==
  /\ cpc.team = "rejected"
  /\ PushStep([step |-> "team-context", status |-> "failed", error |-> local.team.err])
  /\ Settle("team", TeamFallback)
  /\ UNCHANGED <<opts, world, session, pc, inflight, sent, guideContent, fs>>

\* the .catch handler of teamTask
TeamCatch ==
  /\ cpc.team = "rejected"
  /\ PushError("team", local.team.err)
  /\ Settle("team", TeamFallback)
  /\ UNCHANGED <<opts, world, session, pc, inflight, sent, guideContent, fs>>

(***************************************************************************)
(* Step 4: generateOnboardingGuide                                         *)
(***************************************************************************)
\* Synthesize, were it to wait for repoTask alone
Synthesize_NoJoin ==
  /\ pc = "collecting"
  /\ task.repo.state = "fulfilled"
  /\ pc' = "synthesizing"
  /\ inflight' = [inflight EXCEPT !.guide = "generateOnboardingGuide"]
  /\ sent' = [sent EXCEPT !.guide = @ + 1]
  /\ UNCHANGED <<opts, world, session, cpc, local, task, results, guideContent, fs>>

\* Synthesize, were the join to go on only when no collector had failed
Synthesize_UnlessFailed ==
  /\ pc = "collecting"
  /\ \A c \in Chains : task[c].state = "fulfilled"
  /\ results.errors = <<>>
  /\ pc' = "synthesizing"
  /\ inflight' = [inflight EXCEPT !.guide = "generateOnboardingGuide"]
  /\ sent' = [sent EXCEPT !.guide = @ + 1]
  /\ UNCHANGED <<opts, world, session, cpc, local, task, results, guideContent, fs>>

\* await Promise.all([repoTask, docsTask, teamTask]) resumes; generateOnboardingGuide
\* builds the synthesis prompt and sends it
Synthesize ==
  /\ pc = "collecting"
  /\ \A c \in Chains : task[c].state = "fulfilled"
  /\ pc' = "synthesizing"
  /\ inflight' = [inflight EXCEPT !.guide = "generateOnboardingGuide"]
  /\ sent' = [sent EXCEPT !.guide = @ + 1]
  /\ UNCHANGED <<opts, world, session, cpc, local, task, results, guideContent, fs>>

addGuideHeader(content, metadata) ==
  "--- title: \"Onboarding Guide - " \o metadata.owner \o "/" \o metadata.repo \o "\""
  \o " generated_at: \"" \o metadata.generatedAt \o "\""
  \o " tech_stack: ["
  \o join([i \in 1..Len(metadata.techStack.v) |-> "\"" \o metadata.techStack.v[i].v \o "\""], ", ")
  \o "] new_hire: \"" \o metadata.newHireName \o "\" --- "
  \o content

\* path.join(dir, name): the segments joined by "/" and normalised, which drops a leading "./"
pathJoin(dir, name) ==
  IF startsWithAt(dir, 1, "./") THEN SubSeq(dir, 3, Len(dir)) \o "/" \o name
  ELSE dir \o "/" \o name

\* new Date().toISOString() at the moment saveGuide runs
Now == IF world.command = "saveGuide" THEN world.runs[world.run].now ELSE NowISO

\* new Date().toISOString().slice(0, 10)
timestamp == SubSeq(Now, 1, 10)

\* saveGuidePath, were the file name to leave out the owner
saveGuidePath_NoOwner(owner, repo) ==
  pathJoin(OUTPUT_DIR, "onboarding-" \o repo \o "-" \o timestamp \o ".md")

\* the path saveGuide writes to
saveGuidePath(owner, repo) ==
  pathJoin(OUTPUT_DIR, "onboarding-" \o owner \o "-" \o repo \o "-" \o timestamp \o ".md")

\* step 4 without its catch block: the failure leaves runOnboardBot rejected
GuideFailed_Uncaught(e) ==
  /\ results' = results
  /\ pc' = "rejected"

\* the catch block of step 4
GuideFailed(e) ==
  /\ results' = [results EXCEPT !.errors = Append(@, [step |-> "guide-generation", error |-> e])]
  /\ pc' = "done"

\* the synthesis call answers: a throw goes to the catch block; a response gets the header
\* and saveGuide issues mkdir
GuideRespond ==
  /\ pc = "synthesizing"
  /\ inflight.guide # "none"
  /\ inflight' = [inflight EXCEPT !.guide = "none"]
  /\ \E synthesisPrompt \in {buildSynthesisPrompt(task.repo.value, task.docs.value,
                                                   task.team.value, Options)} :
     \E out \in Outcomes("guide", DemoSendAndWait(synthesisPrompt), Messages) :
       IF out.kind = "throw"
       THEN GuideFailed(out.error) /\ UNCHANGED guideContent
       ELSE /\ guideContent' = addGuideHeader(out.message,
                                 [owner |-> Owner, repo |-> Repo, newHireName |-> NewHireName,
                                  generatedAt |-> NowISO, techStack |-> task.repo.value.techStack])
            /\ pc' = "mkdir"
            /\ UNCHANGED results
  /\ UNCHANGED <<opts, world, session, cpc, local, task, sent, fs>>

\* writeFile, were it to append to the file that is there
writeFile_Append(files, path, content) ==
  [p \in DOMAIN files \cup {path} |->
     IF p = path THEN (IF p \in DOMAIN files THEN files[p] ELSE "") \o content ELSE files[p]]

\* writeFile(outputPath, content, "utf-8"): the file is created or truncated and given content
writeFile(files, path, content) ==
  [p \in DOMAIN files \cup {path} |-> IF p = path THEN content ELSE files[p]]

\* Mkdir, were saveGuide to go on to writeFile without creating the directory
Mkdir_NotCreated ==
  /\ pc = "mkdir"
  /\ pc' = "writeFile"
  /\ UNCHANGED <<opts, world, session, cpc, local, task, results, inflight, sent, guideContent, fs>>

\* mkdir(outputDir, { recursive: true }) answers; on success saveGuide issues writeFile
Mkdir ==
  /\ pc = "mkdir"
  /\ \/ /\ fs' = [fs EXCEPT !.dir = TRUE]
        /\ pc' = "writeFile"
        /\ UNCHANGED results
     \/ /\ GuideFailed("EACCES: permission denied, mkdir")
        /\ fs' = [fs EXCEPT !.error = "mkdir"]
  /\ UNCHANGED <<opts, world, session, cpc, local, task, inflight, sent, guideContent>>

\* WriteFile, were the guide to be set although the write failed
WriteFile_GuideAnyway ==
  /\ pc = "writeFile"
  /\ \/ \E guide \in {[content |-> guideContent, outputPath |-> saveGuidePath(Owner, Repo)]} :
           /\ fs' = [fs EXCEPT !.files = writeFile(@, guide.outputPath, guide.content)]
           /\ results' = [results EXCEPT
                            !.steps = Append(@, [step |-> "guide-generation", status |-> "success",
                                                 outputPath |-> guide.outputPath,
                                                 contentLength |-> Len(guide.content)]),
                            !.guide = guide]
           /\ pc' = "done"
     \/ /\ results' = [results EXCEPT
                          !.errors = Append(@, [step |-> "guide-generation", error |-> "ENOSPC"]),
                          !.guide = [content |-> guideContent, outputPath |-> saveGuidePath(Owner, Repo)]]
        /\ pc' = "done"
        /\ fs' = [fs EXCEPT !.error = "writeFile"]
  /\ UNCHANGED <<opts, world, session, cpc, local, task, inflight, sent, guideContent>>

\* writeFile(outputPath, content) answers; on success generateOnboardingGuide returns and
\* runOnboardBot records the step and the guide
WriteFile ==
  /\ pc = "writeFile"
  /\ \/ \E guide \in {[content |-> guideContent, outputPath |-> saveGuidePath(Owner, Repo)]} :
           /\ fs' = [fs EXCEPT !.files = writeFile(@, guide.outputPath, guide.content)]
           /\ results' = [results EXCEPT
                            !.steps = Append(@, [step |-> "guide-generation", status |-> "success",
                                                 outputPath |-> guide.outputPath,
                                                 contentLength |-> Len(guide.content)]),
                            !.guide = guide]
           /\ pc' = "done"
     \/ /\ GuideFailed("ENOSPC: no space left on device, write")
        /\ fs' = [fs EXCEPT !.error = "writeFile"]
  /\ UNCHANGED <<opts, world, session, cpc, local, task, inflight, sent, guideContent>>

\* the action of the scan command up to the first await of analyzeRepository: the try block
\* that builds the session with the github server alone, its catch, which substitutes the
\* demo session, and the call of analyzeRepository
Scan ==
  /\ pc = "cli"
  /\ world.command = "scan"
  /\ session' = IF world.sdk = "ok"
                THEN [kind |-> "real", mcpServers |-> {"github"}, sendAndWait |-> <<>>]
                ELSE world.demo
  /\ pc' = "scanning"
  /\ cpc' = [cpc EXCEPT !.repo = "running"]
  /\ inflight' = [inflight EXCEPT !.repo = analyzeRepository[1].fn]
  /\ sent' = [sent EXCEPT !.repo = @ + 1]
  /\ UNCHANGED <<opts, world, local, task, results, guideContent, fs>>

\* analyzeRepository returned: the scan command prints the counts and ends
ScanReport ==
  /\ pc = "scanning"
  /\ cpc.repo = "fulfilled"
  /\ pc' = "scanned"
  /\ task' = [task EXCEPT !.repo = Fulfilled(RepositoryAnalysis(local.repo))]
  /\ UNCHANGED <<opts, world, session, cpc, local, results, inflight, sent, guideContent, fs>>

\* analyzeRepository threw: the scan command has no handler for it and its action rejects
ScanReject ==
  /\ pc = "scanning"
  /\ cpc.repo = "rejected"
  /\ pc' = "scanRejected"
  /\ UNCHANGED <<opts, world, session, cpc, local, task, results, inflight, sent, guideContent, fs>>

Next ==
  \/ Generate
  \/ Scan
  \/ ScanReport
  \/ ScanReject
  \/ Start
  \/ RepoRespond
  \/ RepoThen
  \/ RepoCatch
  \/ DocsStart
  \/ DocsRespond
  \/ DocsThen
  \/ DocsCatch
  \/ TeamRespond
  \/ TeamThen
  \/ TeamCatch
  \/ Synthesize
  \/ GuideRespond
  \/ Mkdir
  \/ WriteFile

Spec == Init /\ [][Next]_vars

\* every pending call is answered and every scheduled handler runs
FairSpec == Spec /\ WF_vars(Next)

(***************************************************************************)
(* The pure functions on their own: one call of a function on an input     *)
(* drawn from a bounded set.                                               *)
(***************************************************************************)
\* the longest structure listing tried
MaxListing == 2

\* file and directory names a listing is made of
ListingNames == {"Package.JSON", "k8s", "terraform/", "go.mod", "main.go", "App.TSX", "README.md"}

StructureListings ==
  UNION { [1..n -> { JStr(f) : f \in ListingNames }] : n \in 0..MaxListing }

\* the longest tech stack tried
MaxStack == 2

\* tech stacks given to fetchLearningResources
TechStacks ==
  UNION { [1..n -> { JStr(t) : t \in {"Go", "Docker", "Rust"} }] : n \in 0..MaxStack }

\* the substrings the demo session looks for
Markers ==
  { "repository tree", "top-level", "file contents", "key documentation", "pull requests",
    "open issues", "discussions", "Microsoft Learn", "documentation", "code samples",
    "architecture", "tutorials", "learning paths", "Teams", "recent messages", "key people",
    "find key people", "upcoming meetings", "upcoming events", "team norms", "team processes",
    "recent emails", "email", "documents on SharePoint", "SharePoint", "OneDrive",
    "onboarding specialist", "Welcome to" }

\* prompts given to the demo session: one with none of the substrings, and every one and
\* every two of them in a sentence
DemoPrompts ==
  { "Summarise the weather." }
  \cup { "Look for " \o x \o "." : x \in Markers }
  \cup { "Look for " \o x \o " and " \o y \o "." : x \in Markers, y \in Markers }

\* the moments a run writes its guide at: two of one day and one of the next
Moments == { "2026-11-01T09:30:00.000Z", "2026-11-01T23:59:59.999Z", "2026-11-02T00:00:00.000Z" }

\* the guides written: one is the beginning of another
Guides == { "# Welcome", "# Welcome to vscode", "# Hello" }

\* the runs of one series
MaxRuns == 2

\* what the session answers a call of the repository collector with
ScanReplies ==
  { Throw("session error"), Return(MsgFiles), Return(MsgProse), Return(MsgNumbers), Return(MsgNested) }

\* what the session answers the calls of the team collector with
TeamReplies == { MsgFiles, MsgProse, MsgObject, MsgNested, MsgBraces, MsgEmpty }

\* the calls tried: detectTechStack(structure), fetchLearningResources(session, techStack,
\* repoContext) with a session that answers every call with reply or throws, and
\* createDemoSession().sendAndWait(prompt), and saveGuide(content, owner, repo) in MaxRuns runs
\* one after the other, each with its content and its moment, the output directory being
\* there or not before the first, and analyzeRepository(session, owner, repo) in MaxRuns runs
\* one after the other with a session that answers each of the five calls the same way in
\* every run, and gatherTeamContext(session, teamName, projectContext) with a session that
\* answers each of the six calls with reply
FunCalls ==
  { [command |-> "detectTechStack", structure |-> JArr(l)] : l \in StructureListings }
  \cup { [command |-> "fetchLearningResources", techStack |-> JArr(ts), reply |-> m, faults |-> {}] :
           ts \in TechStacks, m \in Messages }
  \cup { [command |-> "sendAndWait", prompt |-> q] : q \in DemoPrompts }
  \cup { [command |-> "saveGuide", runs |-> r, run |-> 1, dir |-> d] :
           r \in [1..MaxRuns -> [content : Guides, now : Moments]], d \in BOOLEAN }
  \cup { [command |-> "gatherTeamContext", reply |-> m] : m \in TeamReplies }
  \cup { [command |-> "analyzeRepository", responses |-> r, run |-> 1, earlier |-> Pending] :
           r \in [{ analyzeRepository[i].fn : i \in 1..Len(analyzeRepository) } -> ScanReplies] }

\* the call is one of a collector, which starts as the orchestrator starts it
Collecting == world.command = "fetchLearningResources"

\* the call is saveGuide, which starts with its mkdir
Saving == world.command = "saveGuide"

\* the call is analyzeRepository, which starts as the scan command starts it
Analyzing == world.command = "analyzeRepository"

\* the call is gatherTeamContext, which starts as the orchestrator starts it
Gathering == world.command = "gatherTeamContext"

FunInit ==
  /\ opts = [skipTeams |-> FALSE, skipDocs |-> FALSE]
  /\ world \in FunCalls
  /\ session = [kind |-> IF Collecting \/ Analyzing \/ Gathering THEN "real" ELSE "none", mcpServers |-> {},
                sendAndWait |-> <<>>]
  /\ pc = IF Collecting \/ Gathering THEN "collecting" ELSE IF Saving THEN "mkdir"
          ELSE IF Analyzing THEN "scanning" ELSE "call"
  /\ cpc = [c \in Chains |-> IF Collecting /\ c = "docs" THEN "waiting"
                              ELSE IF Analyzing /\ c = "repo" THEN "running"
                              ELSE IF Gathering /\ c = "team" THEN "running" ELSE "idle"]
  /\ local = [c \in Chains |-> NoLocals]
  /\ task = [c \in Chains |->
               IF Collecting /\ c = "repo"
               THEN Fulfilled([RepoFallback EXCEPT !.techStack = world.techStack])
               ELSE Pending]
  /\ results = [steps |-> <<>>, errors |-> <<>>, guide |-> Undefined]
  /\ inflight = [c \in Callers |-> IF Analyzing /\ c = "repo" THEN analyzeRepository[1].fn
                                  ELSE IF Gathering /\ c = "team" THEN gatherTeamContext[1].fn
                                  ELSE "none"]
  /\ sent = [c \in Callers |-> IF (Analyzing /\ c = "repo") \/ (Gathering /\ c = "team") THEN 1 ELSE 0]
  /\ guideContent = IF Saving THEN world.runs[1].content ELSE ""
  /\ fs = [dir |-> Saving /\ world.dir, files |-> NoFiles, error |-> "none"]

\* const techStack = detectTechStack(structure)
DetectTechStack ==
  /\ pc = "call"
  /\ world.command = "detectTechStack"
  /\ local' = [local EXCEPT !.repo.structure = world.structure,
                            !.repo.techStack = detectTechStack(world.structure)]
  /\ pc' = "returned"
  /\ UNCHANGED <<opts, world, session, cpc, task, results, inflight, sent, guideContent, fs>>

\* const response = await session.sendAndWait(prompt) with the demo session; guideContent
\* is given response.message
SendAndWait ==
  /\ pc = "call"
  /\ world.command = "sendAndWait"
  /\ guideContent' = DemoSendAndWait(world.prompt)
  /\ pc' = "returned"
  /\ UNCHANGED <<opts, world, session, cpc, local, task, results, inflight, sent, fs>>

\* the next run of the series starts: a new process, with the files the runs before it left
RunAgain ==
  /\ pc = "done"
  /\ Saving
  /\ world.run < MaxRuns
  /\ world' = [world EXCEPT !.run = @ + 1]
  /\ guideContent' = world.runs[world.run + 1].content
  /\ results' = [steps |-> <<>>, errors |-> <<>>, guide |-> Undefined]
  /\ fs' = [fs EXCEPT !.error = "none"]
  /\ pc' = "mkdir"
  /\ UNCHANGED <<opts, session, cpc, local, task, inflight, sent>>

\* what a call of analyzeRepository ended with: the record returned or the error thrown
ScanOutcome ==
  IF pc = "scanned" THEN task.repo ELSE [state |-> "rejected", reason |-> local.repo.err]

\* analyzeRepository is called again, with new local variables; what the call before it ended
\* with is kept
AnalyzeAgain ==
  /\ pc \in {"scanned", "scanRejected"}
  /\ Analyzing
  /\ world.run < MaxRuns
  /\ world' = [world EXCEPT !.run = @ + 1, !.earlier = ScanOutcome]
  /\ pc' = "scanning"
  /\ cpc' = [cpc EXCEPT !.repo = "running"]
  /\ local' = [local EXCEPT !.repo = NoLocals]
  /\ task' = [task EXCEPT !.repo = Pending]
  /\ inflight' = [inflight EXCEPT !.repo = analyzeRepository[1].fn]
  /\ sent' = [sent EXCEPT !.repo = @ + 1]
  /\ UNCHANGED <<opts, session, results, guideContent, fs>>

FunNext ==
  \/ DetectTechStack
  \/ RepoRespond
  \/ ScanReport
  \/ ScanReject
  \/ AnalyzeAgain
  \/ TeamRespond
  \/ SendAndWait
  \/ Mkdir
  \/ WriteFile
  \/ RunAgain
  \/ DocsStart
  \/ DocsRespond

FunSpec == FunInit /\ [][FunNext]_vars

\* the calls of a collector one of which the session may leave without an answer
MaxStall == 2

\* runs of the generate command with a session that answers every call with reply or throws,
\* but answers nothing to call number at of the collector stalled, if there is one
StallWorlds ==
  { [command |-> "generate", sdk |-> "ok", faults |-> {}, reply |-> m, demo |-> <<>>,
     stalled |-> c, at |-> n] :
      m \in Messages, c \in Chains, n \in 1..MaxStall }
  \cup { [command |-> "generate", sdk |-> "ok", faults |-> {}, reply |-> m, demo |-> <<>>,
           stalled |-> "none", at |-> 0] : m \in Messages }

StallInit ==
  /\ opts = [skipTeams |-> FALSE, skipDocs |-> FALSE]
  /\ world \in StallWorlds
  /\ session = [kind |-> "none", mcpServers |-> {}, sendAndWait |-> <<>>]
  /\ pc = "cli"
  /\ cpc = [c \in Chains |-> "idle"]
  /\ local = [c \in Chains |-> NoLocals]
  /\ task = [c \in Chains |-> Pending]
  /\ results = [steps |-> <<>>, errors |-> <<>>, guide |-> Undefined]
  /\ inflight = [c \in Callers |-> "none"]
  /\ sent = [c \in Callers |-> 0]
  /\ guideContent = ""
  /\ fs = [dir |-> FALSE, files |-> NoFiles, error |-> "none"]

\* collector c waits for the call the session leaves without an answer
Blocked(c) == world.stalled = c /\ inflight[c] # "none" /\ sent[c] = world.at

\* the session answers the outstanding call of a collector, unless the call is the one it
\* leaves without an answer
RepoAnswered == ~Blocked("repo") /\ RepoRespond
DocsAnswered == ~Blocked("docs") /\ DocsRespond
TeamAnswered == ~Blocked("team") /\ TeamRespond

\* the steps of the generate command with such a session
StallNext ==
  \/ Generate
  \/ Start
  \/ RepoAnswered
  \/ RepoThen
  \/ RepoCatch
  \/ DocsStart
  \/ DocsAnswered
  \/ DocsThen
  \/ DocsCatch
  \/ TeamAnswered
  \/ TeamThen
  \/ TeamCatch
  \/ Synthesize
  \/ GuideRespond
  \/ Mkdir
  \/ WriteFile

\* every call but the one left without an answer is answered in the end, and every
\* continuation that can run does
StallSpec == StallInit /\ [][StallNext]_vars /\ WF_vars(StallNext)

(***************************************************************************)
(* Properties                                                              *)
(***************************************************************************)
\* how many entries of a list of results name a stage
Count(list, stage) == Cardinality({ i \in 1..Len(list) : list[i].step = stage })
InSteps(stage) == Count(results.steps, stage) > 0
InErrors(stage) == Count(results.errors, stage) > 0
Returned == pc = "done"

\* C1: when runOnboardBot has returned, each of the four stage names occurs exactly once
\* in results.steps and results.errors taken together.
C1_EachStageExactlyOnce ==
  Returned => \A s \in Stages : Count(results.steps, s) + Count(results.errors, s) = 1

\* a run that returned with two stages succeeded and two failed
C1_Witness ==
  /\ Returned
  /\ Len(results.steps) = 2
  /\ Len(results.errors) = 2

\* C2: once the synthesis prompt has been sent, every collector chain is settled: it has no
\* session call outstanding, its task is fulfilled, and its outcome is recorded once.
C2_SynthesisAfterJoin ==
  sent.guide > 0 =>
    \A c \in Chains :
      /\ cpc[c] = "settled"
      /\ inflight[c] = "none"
      /\ task[c].state = "fulfilled"
      /\ Count(results.steps, StageOf(c)) + Count(results.errors, StageOf(c)) = 1

\* the synthesis call is outstanding after one chain succeeded and another failed
C2_Witness ==
  /\ inflight.guide = "generateOnboardingGuide"
  /\ InErrors("team-context")
  /\ InSteps("repo-analysis")

\* C3: whenever a collector has thrown, the result runOnboardBot returns has an errors entry
\* for its stage and no steps entry for it, and the synthesis stage was invoked.
C3_CollectorFailureRecorded ==
  \A c \in Chains :
    [](cpc[c] = "rejected" =>
         [](Returned => /\ InErrors(StageOf(c))
                        /\ ~InSteps(StageOf(c))
                        /\ sent.guide = 1))

\* a run returned after session calls of all three collectors threw
C3_Witness ==
  /\ Returned
  /\ \A c \in Chains : \E i \in 1..Len(results.errors) :
       results.errors[i] = [step |-> StageOf(c), error |-> "session error"]

\* the record the orchestrator substitutes for a failed collector
Fallback(c) ==
  CASE c = "repo" -> RepoFallback
    [] c = "docs" -> EmptyArr
    [] c = "team" -> TeamFallback

\* no field of a collector's value is undefined
Defined(c, x) ==
  CASE c = "repo" -> \A f \in {"structure", "techStack", "docs", "prActivity", "issues", "discussions"} :
                       x[f].t = "arr"
    [] c = "docs" -> x.t = "arr"
    [] c = "team" -> /\ \A f \in {"recentDiscussions", "teamMembers", "upcomingEvents",
                                   "emailInsights", "relatedDocuments"} : x[f].t = "arr"
                     /\ x.teamNorms.t = "obj"

\* C4: a step that settles a chain whose collector threw fulfils its task with the complete
\* default record, whatever the collector had gathered before; a fulfilled task keeps its
\* value, and that value has every field defined.
C4_CollectorAtomic ==
  [][\A c \in Chains :
       /\ cpc[c] = "rejected" => \/ cpc'[c] = "rejected" /\ task'[c] = Pending
                                 \/ task'[c] = Fulfilled(Fallback(c))
       /\ task[c].state = "fulfilled" => task'[c] = task[c] /\ Defined(c, task[c].value)]_vars

\* the fourth call of gatherTeamContext threw with three results gathered, and the
\* synthesis call is outstanding
C4_Witness ==
  /\ sent.team = 4
  /\ inflight.guide = "generateOnboardingGuide"
  /\ task.team.value = TeamFallback

\* C5: runOnboardBot never stops short of returning: in every state before its return a
\* step is enabled, and what it returns holds the two lists, whatever failed.
C5_AlwaysResolves ==
  /\ world.command = "generate" /\ ~Returned => ENABLED Next
  /\ Returned => /\ Len(results.steps) + Len(results.errors) = Cardinality(Stages)
                 /\ pc = "done"

\* a run returned with every stage failed
C5_Witness ==
  /\ Returned
  /\ Len(results.errors) = 4
  /\ results.guide = Undefined

\* the synthesis stage failed: its session call threw, or mkdir or writeFile did
SynthesisFailed == Returned /\ (guideContent = "" \/ fs.error # "none")

\* C6: a failed synthesis stage is recorded in errors as guide-generation and the result has
\* no guide; the result has a guide exactly when steps has a guide-generation entry.
C6_GuideIffStep ==
  /\ SynthesisFailed => InErrors("guide-generation") /\ results.guide = Undefined
  /\ results.guide # Undefined <=> InSteps("guide-generation")

\* a run returned after writeFile threw
C6_Witness ==
  /\ Returned
  /\ fs.error = "writeFile"

\* the order in which runOnboardBot advances
Rank(p) ==
  CASE p = "cli" -> 0
    [] p = "ready" -> 1
    [] p = "collecting" -> 2
    [] p = "synthesizing" -> 3
    [] p = "mkdir" -> 4
    [] p = "writeFile" -> 5
    [] p = "done" -> 6
    [] OTHER -> 7

\* C7: every run eventually returns, and until then it only advances.
C7_EventuallyDone ==
  /\ world.command = "generate" => <>Returned
  /\ [][Rank(pc') >= Rank(pc)]_vars

\* a run returned although every collector and the synthesis call threw
C7_Witness ==
  /\ Returned
  /\ Len(results.errors) = 4
  /\ guideContent = ""

\* the end-to-end run with the demo session, no skip flags, and a file system that works
DemoRun ==
  /\ session.kind = "demo"
  /\ ~opts.skipTeams /\ ~opts.skipDocs
  /\ fs.error = "none"

\* C8: the demo run for microsoft/vscode with no call failing returns four steps, one for
\* each stage, no errors, and a guide whose outputPath ends with the file name of the day.
C8_DemoRunEndToEnd ==
  Returned /\ DemoRun /\ world.faults = {} =>
    /\ Len(results.steps) = 4
    /\ \A s \in Stages : Count(results.steps, s) = 1
    /\ Len(results.errors) = 0
    /\ endsWith(results.guide.outputPath, "onboarding-microsoft-vscode-2026-11-01.md")

\* the demo run returned with its guide written
C8_Witness ==
  /\ Returned /\ DemoRun /\ world.faults = {}
  /\ DOMAIN fs.files = {"onboarding-guides/onboarding-microsoft-vscode-2026-11-01.md"}
  /\ results.guide.content = fs.files[results.guide.outputPath]

\* C9 as claimed: the demo run in which only the team-context calls throw returns three
\* steps, one error, for team-context, and a guide whose content has a "Key People" section.
C9_KeyPeopleSection ==
  Returned /\ DemoRun /\ world.faults = {"team-context"} =>
    /\ Len(results.steps) = 3
    /\ Len(results.errors) = 1
    /\ results.errors[1].step = "team-context"
    /\ includes(results.guide.content, "Key People")

\* C10 as claimed: with --skip-teams the team-context collector issues no session call and
\* records no outcome, with --skip-docs neither does the docs-fetch collector, and a session
\* that was created has none of the servers the flags name.
C10_SkipFlagsSkipCollectors ==
  /\ opts.skipTeams => /\ sent.team = 0
                       /\ ~InSteps("team-context") /\ ~InErrors("team-context")
                       /\ "workiq" \notin session.mcpServers
  /\ opts.skipDocs => /\ sent.docs = 0
                      /\ ~InSteps("docs-fetch") /\ ~InErrors("docs-fetch")
                      /\ "microsoft-learn" \notin session.mcpServers

\* C11: whichever way building the real session fails (the import, the constructor, or
\* createSession), the generate and the scan command go on with the demo session: the session
\* is never left undefined once the command is past its try block, and the pipeline issues
\* its first session call.
C11_DemoSessionSubstituted ==
  /\ [](pc # "cli" => /\ session.kind \in {"real", "demo"}
                      /\ world.sdk \in SdkFailures <=> session.kind = "demo")
  /\ (world.sdk \in SdkFailures) ~> (session.kind = "demo" /\ sent.repo > 0)

\* the scan command went through analyzeRepository with the demo session after createSession
\* had rejected
C11_Witness ==
  /\ world.command = "scan" /\ world.sdk = "createSession"
  /\ session.kind = "demo"
  /\ pc = "scanned"
  /\ sent.repo = Len(analyzeRepository)

\* the locals of the collectors that the array-shape extraction fills
ArrayLocals ==
  [repo |-> {"structure", "prActivity", "issues", "discussions"},
   docs |-> {},
   team |-> {"recentDiscussions", "teamMembers", "upcomingEvents", "emailInsights", "relatedDocuments"}]

\* a response that is malformed for the extraction of a value of kind shape ("arr" or "obj"):
\* the empty string, text with no JSON in it, or JSON of another shape
Malformed(m, shape) ==
  \/ m = ""
  \/ ~includes(m, "[") /\ ~includes(m, "{")
  \/ \E r \in {JSONparse(m)} : r.ok /\ r.val.t # shape

\* C12 as claimed: whatever a collector has extracted from a malformed response is the
\* caller's fallback: [] for the array shape, the default norms for the object shape.
C12_MalformedGivesFallback ==
  session.kind = "real" =>
    /\ Malformed(world.reply, "arr") =>
         \A c \in Chains : \A v \in ArrayLocals[c] : local[c][v] \in {Undefined, EmptyArr}
    /\ Malformed(world.reply, "obj") => local.team.teamNorms \in {Undefined, getDefaultNorms}

\* the function whose answer fills local v of collector c
FnOf(c, v) ==
  LET a == IF c = "repo" THEN analyzeRepository ELSE gatherTeamContext
  IN a[CHOOSE i \in 1..Len(a) : a[i].var = v].fn

\* the message the session answered that function with, when the call did not throw
ReplyTo(c, v) ==
  IF session.kind = "demo" THEN session.sendAndWait[Call(FnOf(c, v), Null)] ELSE world.reply

\* the JSON value that starts at the first "[" of a message, brackets balanced
EmbeddedArray(m) ==
  IF indexOf(m, "[", 1) = 0 THEN ParseFail(1) ELSE ParseValue(m, indexOf(m, "[", 1))

\* C13 as claimed: when the response holds a well-formed JSON array, nested arrays in its
\* elements included, within any surrounding prose, the array-shape extraction hands the
\* collector the value of that array.
C13_EmbeddedArrayExtracted ==
  \A c \in Chains : \A v \in ArrayLocals[c] :
    local[c][v] # Undefined =>
      \E r \in {EmbeddedArray(ReplyTo(c, v))} : r.ok => local[c][v] = r.val

\* the patterns of TECH_PATTERNS as they are looked for: lowercased, the wildcard "*." and
\* the slash taken out
SoughtPatterns ==
  << <<"package.json", "node_modules", ".nvmrc">>,
     <<"tsconfig.json", "ts", "tsx">>,
     <<"requirements.txt", "pyproject.toml", "setup.py", "pipfile">>,
     <<"cargo.toml", "rs">>,
     <<"go.mod", "go.sum", "go">>,
     <<"pom.xml", "build.gradle", "java">>,
     <<"csproj", "sln", "program.cs">>,
     <<"dockerfile", "docker-compose.yml">>,
     <<"k8s", "yaml">>,
     <<"react", "jsx", "tsx">>,
     <<"next.config">>,
     <<"host.json", "function.json">>,
     <<"tf", "terraform">>,
     <<"bicep", "main.bicep">> >>

\* the same with only the wildcard taken out, the slash of a directory pattern kept
WildcardStrippedPatterns ==
  [SoughtPatterns EXCEPT ![9] = <<"k8s/", "yaml">>, ![13] = <<"tf", "terraform/">>]

\* the names of a listing joined by blanks, in lower case
LoweredListing(structure) ==
  toLowerCase(join([i \in 1..Len(structure.v) |-> structure.v[i].v], " "))

\* technology number i is in the detected stack
Detected(i) == \E k \in 1..Len(local.repo.techStack.v) : local.repo.techStack.v[k].v = TECH_PATTERNS[i].tech

\* detectTechStack has returned
TechStackReturned == pc = "returned" /\ world.command = "detectTechStack"

\* C14 (amended): a technology is in the detected stack exactly when one of its patterns,
\* lowercased and with the wildcard "*." and the slash taken out, occurs in the lowercased
\* listing; a listing with "Package.JSON" in it detects "Node.js / JavaScript".
C14_DetectedIffPatternOccurs ==
  TechStackReturned =>
    \E listing \in {LoweredListing(world.structure)} :
      /\ \A i \in 1..Len(TECH_PATTERNS) :
            Detected(i) <=> \E k \in 1..Len(SoughtPatterns[i]) : includes(listing, SoughtPatterns[i][k])
      /\ (\E j \in 1..Len(world.structure.v) : world.structure.v[j].v = "Package.JSON") => Detected(1)

\* the stack of a listing of "Package.JSON" and "k8s" holds Node.js / JavaScript and Kubernetes
C14_Witness ==
  /\ TechStackReturned
  /\ world.structure = JArr(<<JStr("Package.JSON"), JStr("k8s")>>)
  /\ Detected(1) /\ Detected(9)

\* C14 as claimed: only the wildcard is stripped from a pattern
C14_WildcardStrippedOnly ==
  TechStackReturned =>
    \E listing \in {LoweredListing(world.structure)} :
      \A i \in 1..Len(TECH_PATTERNS) :
        Detected(i) <=> \E k \in 1..Len(WildcardStrippedPatterns[i]) :
                          includes(listing, WildcardStrippedPatterns[i][k])

\* C15: the stack detected for the listing ["go.mod", "main.go"] is the one technology "Go".
C15_GoOnly ==
  TechStackReturned /\ world.structure = JArr(<<JStr("go.mod"), JStr("main.go")>>) =>
    local.repo.techStack = JArr(<<JStr("Go")>>)

\* detectTechStack has returned for the listing ["go.mod", "main.go"]
C15_Witness ==
  /\ TechStackReturned
  /\ local.repo.structure = JArr(<<JStr("go.mod"), JStr("main.go")>>)
  /\ Len(local.repo.techStack.v) = 1

\* the technology of group i of a sequence of groups
TechnologyOf(groups, i) == prop(groups[i], "technology").v

\* C16: when fetchLearningResources returns for a stack of n technologies it has issued n + 2
\* session calls and holds n + 2 groups: one for each technology in the order of the stack,
\* then "Architecture & Best Practices", then "Getting Started Tutorials", each with a
\* sequence of resources, which may be empty.
C16_GroupsPerTechnologyPlusTwo ==
  Collecting /\ cpc.docs = "fulfilled" =>
    \E n \in {Len(world.techStack.v)}, groups \in {local.docs.resources.v} :
      /\ sent.docs = n + 2
      /\ Len(groups) = n + 2
      /\ \A i \in 1..n : TechnologyOf(groups, i) = world.techStack.v[i].v
      /\ TechnologyOf(groups, n + 1) = "Architecture & Best Practices"
      /\ TechnologyOf(groups, n + 2) = "Getting Started Tutorials"
      /\ \A i \in 1..(n + 2) : prop(groups[i], "resources").t = "arr"

\* fetchLearningResources returned for the stack Go, Docker after every search yielded nothing
C16_Witness ==
  /\ Collecting /\ cpc.docs = "fulfilled"
  /\ world.techStack = JArr(<<JStr("Go"), JStr("Docker")>>)
  /\ world.reply = MsgProse
  /\ Len(local.docs.resources.v) = 4
  /\ \A i \in 1..4 : prop(local.docs.resources.v[i], "resources") = EmptyArr

\* the predicates of the demo session in the order they are tested: the substrings of each
PredicateList ==
  << {"repository tree", "top-level"}, {"file contents", "key documentation"}, {"pull requests"},
     {"open issues"}, {"discussions"}, {"Microsoft Learn", "documentation"},
     {"code samples", "architecture"}, {"tutorials", "learning paths"},
     {"Teams", "recent messages"}, {"key people", "find key people"},
     {"upcoming meetings", "upcoming events"}, {"team norms", "team processes"},
     {"recent emails", "email"}, {"documents on SharePoint", "SharePoint", "OneDrive"},
     {"onboarding specialist", "Welcome to"} >>

\* the responses of the first fourteen predicates; the fifteenth answers with the generated guide
ResponseList ==
  << DemoStructure, DemoDocs, DemoPRs, DemoIssues, DemoDiscussions, DemoLearn, DemoArchitecture,
     DemoTutorials, DemoTeams, DemoPeople, DemoEvents, DemoNorms, DemoEmails, DemoDocuments >>

\* predicate i matches the prompt
Matches(i, prompt) == \E x \in PredicateList[i] : includes(prompt, x)

\* the first predicate of the list that matches, 0 when none does
FirstMatch(prompt) ==
  IF \E i \in 1..Len(PredicateList) : Matches(i, prompt)
  THEN CHOOSE i \in 1..Len(PredicateList) :
         Matches(i, prompt) /\ \A j \in 1..(i - 1) : ~Matches(j, prompt)
  ELSE 0

\* C17: the demo session answers a prompt with the response of the first predicate of the
\* list that matches it, whatever later predicates match as well, and with "[]" when none
\* matches; it answers every prompt.
C17_FirstMatchWins ==
  world.command = "sendAndWait" =>
    /\ pc = "call" => ENABLED SendAndWait
    /\ pc = "returned" =>
         \E i \in {FirstMatch(world.prompt)} :
           guideContent = IF i = 0 THEN "[]"
                          ELSE IF i = Len(PredicateList) THEN generateDemoGuide(world.prompt)
                          ELSE ResponseList[i]

\* a prompt with the substrings of the sixth and of the last predicate was answered with the
\* Microsoft Learn response
C17_Witness ==
  /\ world.command = "sendAndWait" /\ pc = "returned"
  /\ world.prompt = "Look for Welcome to and Microsoft Learn."
  /\ guideContent = DemoLearn

\* the path of the guide of run k, written out
GuidePathOf(k) ==
  "onboarding-guides/onboarding-microsoft-vscode-" \o SubSeq(world.runs[k].now, 1, 10) \o ".md"

\* run k of the series has written its guide
Saved(k) == Saving /\ world.run = k /\ pc = "done" /\ results.guide # Undefined

\* runs j and k write on the same day
SameDate(j, k) == SubSeq(world.runs[j].now, 1, 10) = SubSeq(world.runs[k].now, 1, 10)

\* C18: a run that saved its guide has created the output directory and left, at
\* {OUTPUT_DIR}/onboarding-{owner}-{repo}-{YYYY-MM-DD}.md, a file that holds exactly its
\* content; after two runs of the same owner, repo and date there is that one file, with the
\* content of the second run.
C18_SecondRunOverwrites ==
  \A k \in 1..MaxRuns :
    Saved(k) =>
      /\ fs.dir
      /\ results.guide.outputPath = GuidePathOf(k)
      /\ GuidePathOf(k) \in DOMAIN fs.files
      /\ fs.files[GuidePathOf(k)] = world.runs[k].content
      /\ (\A j \in 1..(k - 1) : SameDate(j, k)) => DOMAIN fs.files = {GuidePathOf(k)}

\* the second run of a day has saved a guide that is the beginning of the guide the first
\* run had saved, into a directory that was not there before the first run
C18_Witness ==
  /\ Saved(2)
  /\ ~world.dir
  /\ world.runs[1] = [content |-> "# Welcome to vscode", now |-> "2026-11-01T09:30:00.000Z"]
  /\ world.runs[2] = [content |-> "# Welcome", now |-> "2026-11-01T23:59:59.999Z"]
  /\ fs.files = [p \in {"onboarding-guides/onboarding-microsoft-vscode-2026-11-01.md"} |-> "# Welcome"]

\* a later call of analyzeRepository has ended
AnalyzedAgain == Analyzing /\ world.run > 1 /\ pc \in {"scanned", "scanRejected"}

Recorded(c) ==
  /\ cpc[c] = "settled"
  /\ Count(results.steps, StageOf(c)) + Count(results.errors, StageOf(c)) = 1

C20_RepoBlocked ==
  /\ Blocked("repo")
  /\ Recorded("team")
  /\ cpc.docs = "waiting"

ProgramOrder ==
  [repo |-> << <<"getRepoStructure", "structure">>, <<"getKeyDocuments", "docs">>,
               <<"getRecentPRs", "prActivity">>, <<"getActiveIssues", "issues">>,
               <<"getDiscussions", "discussions">> >>,
   team |-> << <<"getRecentTeamsActivity", "recentDiscussions">>, <<"getKeyPeople", "teamMembers">>,
               <<"getUpcomingEvents", "upcomingEvents">>, <<"getTeamNorms", "teamNorms">>,
               <<"getEmailInsights", "emailInsights">>, <<"getRelatedDocuments", "relatedDocuments">> >>]

\* the results of the first n calls of collector c have been received and no later one
Received(c, n) ==
  \A i \in 1..Len(ProgramOrder[c]) :
    (local[c][ProgramOrder[c][i][2]] # Undefined) <=> (i <= n)

\* C22: the repository collector and the team collector each have at most one call
\* outstanding, the k-th call sent is the k-th of the order claimed, it is outstanding only
\* when the answers to the k - 1 calls before it have been received and none after it, and
\* call k + 1 is sent in the step in which the answer to call k is received.
C22_ProgramOrder ==
  /\ [](\A c \in {"repo", "team"} :
          /\ sent[c] <= Len(ProgramOrder[c])
          /\ inflight[c] # "none" =>
               /\ cpc[c] = "running"
               /\ inflight[c] = ProgramOrder[c][sent[c]][1]
               /\ Received(c, sent[c] - 1))
  /\ [][\A c \in {"repo", "team"} :
           /\ sent'[c] \in {sent[c], sent[c] + 1}
           /\ sent[c] > 0 /\ sent'[c] = sent[c] + 1 =>
                /\ inflight[c] = ProgramOrder[c][sent[c]][1]
                /\ ~Received(c, sent[c])
                /\ local'[c][ProgramOrder[c][sent[c]][2]] # Undefined]_vars

\* the repository collector waits for the answer to its fourth call and the team collector
\* for the answer to its sixth
C22_Witness ==
  /\ inflight.repo = "getActiveIssues" /\ sent.repo = 4 /\ Received("repo", 3)
  /\ inflight.team = "getRelatedDocuments" /\ sent.team = 6 /\ Received("team", 5)

\* the calls a run may send when the repository chain resolved to n technologies
CallBudget(n) == 5 + (n + 2) + 6 + 1

\* collector c has been started
Started(c) == cpc[c] \notin {"idle", "waiting"}

\* collector c has ended, by returning or by throwing
Ended(c) == cpc[c] \in {"fulfilled", "rejected", "settled"}

\* C23: a collector is started once and, once it has ended, by returning or by a throw, it
\* is not started again and sends no further call; the synthesis prompt is sent at most
\* once, and exactly once in a run that returned; the calls of a run are at most 5 for the
\* repository, n + 2 for the resources of n technologies, 6 for the team and 1 for the guide.
C23_NoRetries ==
  /\ [](/\ sent.repo <= 5
        /\ sent.team <= 6
        /\ sent.guide <= 1
        /\ sent.docs > 0 => sent.docs <= length(task.repo.value.techStack) + 2
        /\ Returned =>
             /\ sent.guide = 1
             /\ sent.repo + sent.docs + sent.team + sent.guide
                  <= CallBudget(length(task.repo.value.techStack)))
  /\ [][\A c \in Chains :
           /\ Started(c) => Started(c)'
           /\ Ended(c) => Ended(c)' /\ sent'[c] = sent[c] /\ inflight'[c] = "none"
           /\ cpc[c] = "running" /\ cpc'[c] = "rejected" => sent'[c] = sent[c]]_vars
  /\ [][pc \notin {"collecting", "scanning"} /\ pc' = pc => sent' = sent]_vars

\* a run returned in which the first call of the repository collector and the second call
\* of the team collector threw: four calls were sent besides the synthesis prompt
C23_Witness ==
  /\ Returned
  /\ sent = [repo |-> 1, docs |-> 2, team |-> 2, guide |-> 1]
  /\ InErrors("repo-analysis") /\ InErrors("team-context")

\* the response has no "[" with a "]" after it
NoBracketedMatch(m) ==
  \A a \in 1..Len(m) :
    SubSeq(m, a, a) = "[" => \A b \in (a + 1)..Len(m) : SubSeq(m, b, b) # "]"

\* the responses tried whose match, from the first "[" to the first "]" after it, is not JSON:
\* the array of a record that holds an array is cut at the end of the inner array
MatchFailsToParse(m) == m = "[{\"number\": 1, \"labels\": [\"bug\"]}]"

\* the answer the session gave to the call of the repository collector assigned to variable v
AnswerTo(v) == world.responses[(CHOOSE x \in {ProgramOrder.repo[i] : i \in 1..5} : x[2] = v)[1]].message

\* the variables of the five calls of the repository collector
RepoLocals == {"structure", "docs", "prActivity", "issues", "discussions"}

NoBracedMatch(m) ==
  \A a \in 1..Len(m) :
    SubSeq(m, a, a) = "{" => \A b \in (a + 1)..Len(m) : SubSeq(m, b, b) # "}"

\* the response tried whose match, from the first "{" to the last "}", is not JSON
ObjectFailsToParse(m) == m = "Our norms: {meetingCadence: weekly}"

\* the five fields of the norms record
NormsFields ==
  {"communicationChannels", "meetingCadence", "codeReviewProcess", "deploymentProcess", "otherNorms"}

\* x is a record with the five fields, each with a value that is not empty
FullyPopulated(x) ==
  /\ x.t = "obj"
  /\ { x.v[i].k : i \in 1..Len(x.v) } = NormsFields
  /\ \A i \in 1..Len(x.v) : Len(x.v[i].x.v) > 0

\* the variables of the five calls of the team collector that extract an array
TeamArrays == {"recentDiscussions", "teamMembers", "upcomingEvents", "emailInsights", "relatedDocuments"}

\* C25: when the response to the norms call has no braced match or the match fails to parse,
\* the norms are the default record of getDefaultNorms, with all five fields; when the
\* response to one of the other five calls has no bracketed match or the match fails to
\* parse, the call yields the empty sequence.
C25_NormsDefaultOthersEmpty ==
  Gathering =>
    /\ local.team.teamNorms # Undefined
         /\ (NoBracedMatch(world.reply) \/ ObjectFailsToParse(world.reply)) =>
           /\ local.team.teamNorms = getDefaultNorms
           /\ FullyPopulated(local.team.teamNorms)
           /\ prop(local.team.teamNorms, "codeReviewProcess") = JStr("Check CONTRIBUTING.md in the repo")
    /\ \A v \in TeamArrays :
         local.team[v] # Undefined
           /\ (NoBracketedMatch(world.reply) \/ MatchFailsToParse(world.reply)) =>
             local.team[v] = EmptyArr

\* the team collector returned after six answers with braces around text that is not JSON:
\* the norms are the default record and the five sequences are empty
C25_Witness ==
  /\ Gathering /\ cpc.team = "fulfilled"
  /\ ObjectFailsToParse(world.reply)
  /\ FullyPopulated(local.team.teamNorms)
  /\ \A v \in TeamArrays : local.team[v] = EmptyArr

\* the callers with a session call outstanding
Outstanding == { c \in Callers : inflight[c] # "none" }

Logged(stage) == InSteps(stage) \/ InErrors(stage)

\* in list, every entry of stage a stands before every entry of stage b
Before(list, a, b) ==
  \A i, j \in 1..Len(list) : list[i].step = a /\ list[j].step = b => i < j

\* list a is the beginning of list b
IsPrefix(a, b) == Len(a) <= Len(b) /\ SubSeq(b, 1, Len(a)) = a

C27_TeamFirst ==
  Logged("team-context") /\ ~Logged("repo-analysis") /\ Len(results.steps) + Len(results.errors) = 1

\* the team-context step is the last before the synthesis
C27_TeamLast ==
  /\ Len(results.steps) = 3
  /\ results.steps[2].step = "docs-fetch"
  /\ results.steps[3].step = "team-context"

\* the two groups of a resource search on no technology
SyntheticGroups(groups) ==
  /\ Len(groups) = 2
  /\ TechnologyOf(groups, 1) = "Architecture & Best Practices"
  /\ TechnologyOf(groups, 2) = "Getting Started Tutorials"

\* C28: when the repository collector failed, the repository chain resolves to the fallback
\* analysis, the resource collector can start, its calls are the two category searches and no
\* other, and when it returns it is recorded as a docs-fetch step and resolves to exactly
\* the two synthetic groups, beside the repo-analysis error.
C28_DocsRunOnFallback ==
  InErrors("repo-analysis") =>
    /\ task.repo.state = "fulfilled"
    /\ length(task.repo.value.techStack) = 0
    /\ length(task.repo.value.structure) = 0
    /\ cpc.docs = "waiting" => ENABLED DocsStart
    /\ sent.docs <= 2
    /\ inflight.docs \in {"none", "searchArchitectureDocs", "searchTutorials"}
    /\ inflight.docs = "searchArchitectureDocs" <=> (sent.docs = 1 /\ cpc.docs = "running")
    /\ cpc.docs = "fulfilled" =>
         sent.docs = 2 /\ SyntheticGroups(local.docs.resources.v) /\ ENABLED DocsThen
    /\ cpc.docs = "settled" =>
         /\ InSteps("docs-fetch") <=> ~InErrors("docs-fetch")
         /\ InSteps("docs-fetch") => sent.docs = 2 /\ SyntheticGroups(task.docs.value.v)

\* the run returned with an error for repo-analysis and a step for docs-fetch
C28_Witness ==
  /\ Returned
  /\ InErrors("repo-analysis")
  /\ InSteps("docs-fetch")
  /\ sent.docs = 2
  /\ SyntheticGroups(task.docs.value.v)

\* the guide content begins with the metadata header
Headed(content) == startsWithAt(content, 1, "--- title: \"Onboarding Guide - microsoft/vscode\"")

\* C29: the synthesis stage goes from the session call to the header, to the directory, to
\* the file, and only then to the guide-generation step and results.guide: the guide is set
\* in the step that writes the file, with the path and the content of the file; a write
\* that fails after the session answered leaves no guide and a guide-generation error.
C29_GuideAfterWrite ==
  /\ [](world.command = "generate" =>
          /\ pc = "synthesizing" =>
               guideContent = "" /\ ~fs.dir /\ DOMAIN fs.files = {} /\ ~Logged("guide-generation")
          /\ pc = "mkdir" =>
               /\ sent.guide = 1 /\ inflight.guide = "none" /\ Headed(guideContent)
               /\ ~fs.dir /\ DOMAIN fs.files = {}
               /\ results.guide = Undefined /\ ~Logged("guide-generation")
          /\ pc = "writeFile" =>
               /\ Headed(guideContent) /\ fs.dir /\ DOMAIN fs.files = {}
               /\ results.guide = Undefined /\ ~Logged("guide-generation")
          /\ results.guide # Undefined =>
               /\ Returned /\ InSteps("guide-generation") /\ fs.dir
               /\ results.guide.content = guideContent /\ Headed(guideContent)
               /\ DOMAIN fs.files = {results.guide.outputPath}
               /\ fs.files[results.guide.outputPath] = results.guide.content
          /\ fs.error = "writeFile" =>
               /\ Returned /\ Headed(guideContent) /\ fs.dir /\ DOMAIN fs.files = {}
               /\ results.guide = Undefined
               /\ InErrors("guide-generation") /\ ~InSteps("guide-generation"))
  /\ [][results.guide = Undefined /\ results.guide' # Undefined =>
          pc = "writeFile" /\ DOMAIN fs.files = {} /\ ~InSteps("guide-generation")]_vars

\* the session answered the synthesis prompt, the directory was created, and the write
\* failed: the run returned with a guide-generation error and no guide
C29_Witness ==
  /\ Returned
  /\ fs.error = "writeFile"
  /\ fs.dir
  /\ Headed(guideContent)
  /\ results.guide = Undefined
  /\ InErrors("guide-generation")
  /\ Len(results.steps) = 3

\* the groups of a resource list each hold a sequence of resources
GroupsOfArrays(resources) ==
  /\ resources.t = "arr"
  /\ \A i \in 1..Len(resources.v) :
        resources.v[i].t = "obj" /\ prop(resources.v[i], "resources").t = "arr"

\* C30: whatever the session answers, a collector that returned holds an array in each of
\* its sequence fields and an object in teamNorms, so that the success handlers read the
\* lengths they record; the handler that runs for a collector that returned appends the
\* step of its stage and no error, and an error is recorded for a stage only when its
\* collector threw.
C30_ReturnedRecordsAreTyped ==
  /\ [](/\ cpc.repo = "fulfilled" =>
             /\ \A f \in RepoLocals : local.repo[f].t = "arr"
             /\ local.repo.techStack.t = "arr"
        /\ cpc.docs = "fulfilled" => GroupsOfArrays(local.docs.resources)
        /\ cpc.team = "fulfilled" =>
             /\ \A f \in TeamArrays : local.team[f].t = "arr"
             /\ local.team.teamNorms.t = "obj"
        /\ \A i \in 1..Len(results.steps) :
             results.steps[i].step # "guide-generation" =>
               \A f \in DOMAIN results.steps[i] \ {"step", "status", "techStack"} :
                 results.steps[i][f] \in Nat)
  /\ [][\A c \in Chains :
          /\ pc = "collecting" /\ cpc[c] = "fulfilled" /\ cpc'[c] # "fulfilled" =>
               /\ Count(results'.steps, StageOf(c)) = Count(results.steps, StageOf(c)) + 1
               /\ results'.errors = results.errors
          /\ Count(results'.errors, StageOf(c)) > Count(results.errors, StageOf(c)) =>
               cpc[c] = "rejected"]_vars

\* the session answered every call with an object that is no array: the three collectors
\* returned, with the array found inside the object in their sequence fields, and the
\* three stages are recorded as steps
C30_Witness ==
  /\ world.command = "generate"
  /\ world.reply = MsgObject
  /\ InSteps("repo-analysis") /\ InSteps("docs-fetch") /\ InSteps("team-context")
  /\ results.errors = <<>>
  /\ task.team.value.teamNorms.t = "obj"
  /\ task.team.value.teamMembers = JArr(<<JStr("pairing")>>)
  /\ task.repo.value.structure = JArr(<<JStr("pairing")>>)

====
